---- MODULE Spec2Model ----
(***************************************************************************)
(* Model of ODaX (Open Data eXplorer):                                     *)
(*   - idw_interpolate, parse_coords, swiss_lv95_to_wgs84 and              *)
(*     get_wgs84_municipality of imping/nabel_airquality/                  *)
(*     lib_geocoordinates.py;                                              *)
(*   - GetFeesByParameters and GetKVNameFromBAGNumber of                   *)
(*     imping/healthinsurance/lib_healthinsurance.py.                      *)
(* Each function has its own specification: Init draws its inputs (and     *)
(* the answer of the external service or file it uses) from bounded sets   *)
(* and the actions run it.                                                 *)
(*                                                                         *)
(* Numbers are binary64 values: +, -, * and / round their exact result to  *)
(* 53 binary digits, ties to even, as the code's float operations do.      *)
(* Station and target positions are taken from a lattice on which every    *)
(* planar distance is an integer, so sqrt and ** have exact results; the   *)
(* exponent range of binary64 is not modelled.                             *)
(***************************************************************************)
EXTENDS Integers, Sequences, FiniteSets

VARIABLES
    stations_df,   \* the station table: the dtype of each column and the rows
    target_lat,    \* arguments of the last call of idw_interpolate
    target_lon,
    k,
    power,
    nearest_idx,   \* local nearest_idx of the last call (<<>> if not computed)
    result,        \* outcome of the last call
    pc,            \* "call": arguments chosen; "returned": the call has completed
    call,          \* the other functions: the function called and its arguments
    world,         \* what the external service or file answers during the call
    ret,           \* the outcome of the call (returned value or exception)
    log,           \* the diagnostics logged so far
    io,            \* the outbound requests and file reads made so far
    step           \* where the call stands

idw_vars ==
    <<stations_df, target_lat, target_lon, k, power, nearest_idx, result, pc>>

fn_vars == <<call, world, ret, log, io, step>>

vars == <<stations_df, target_lat, target_lon, k, power, nearest_idx, result, pc,
          call, world, ret, log, io, step>>

\* No call of the other functions is under way.
FnAtRest ==
    /\ call = [fn |-> "none"]
    /\ world = [kind |-> "none"]
    /\ ret = [outcome |-> "none"]
    /\ log = <<>>
    /\ io = <<>>
    /\ step = "idle"

----------------------------------------------------------------------------
(* Bounds of the model. *)

MaxStations == 2      \* rows of the station table: 0..MaxStations
MaxStrLen == 3        \* lexemes of a coordinate string: 0..MaxStrLen
MaxFeeRows == 3       \* rows of the premium table: 0..MaxFeeRows
MaxSheetRows == 2     \* rows of a sheet of the insurer workbook: 0..MaxSheetRows
MaxFeatures == 2      \* stations in the answer of the station list: 0..MaxFeatures
MaxRuns == 2          \* runs of the downloader, one after the other
MaxCalls == 3         \* calls of the two lookups, one after the other
MaxStationRows == 2   \* rows of stations.csv: 0..MaxStationRows
MaxCantons == 2       \* cantons of the analysis loop: 0..MaxCantons
MaxMunicipalities == 2 \* municipalities of a canton: 0..MaxMunicipalities
MaxCandidates == 3    \* candidates in a place-search answer: 0..MaxCandidates

----------------------------------------------------------------------------
(* Floating point values are those of binary64.  A value is NaN, +inf,     *)
(* -inf, or a number.  A number that is n / 2^j with small n and j is      *)
(* written [kind |-> "num", n, d] (d > 0, lowest terms); the same record   *)
(* with another d is the binary64 value nearest to n / d, the value of a   *)
(* decimal literal.  Every other number is written                         *)
(* [kind |-> "b64", s, m, e]: sign s, 53-bit significand m, value          *)
(* s * m * 2^e.  A significand, like every magnitude the arithmetic        *)
(* needs, is the sequence of its digits in base 2^14, lowest first.        *)
(* The exponent is not bounded: nothing overflows to inf or becomes        *)
(* subnormal at the magnitudes of coordinates and measurements.            *)

RECURSIVE GCD(_, _)
GCD(a, b) == IF b = 0 THEN a ELSE GCD(b, a % b)

Abs(x) == IF x < 0 THEN -x ELSE x

NaN == [kind |-> "nan", n |-> 0, d |-> 1]
Inf == [kind |-> "inf", n |-> 0, d |-> 1]

Num(a, b) ==
    LET g == GCD(Abs(a), Abs(b))
        s == IF b < 0 THEN -1 ELSE 1
    IN [kind |-> "num", n |-> s * (a \div g), d |-> s * (b \div g)]

F(a) == [kind |-> "num", n |-> a, d |-> 1]

isnan(x) == x.kind = "nan"
IsNum(x) == x.kind \in {"num", "b64"}
IsZero(x) == x.kind = "num" /\ x.n = 0

\* magnitudes: digits in base 2^14, lowest first, the highest not 0
Digit(a, i) == IF i <= Len(a) THEN a[i] ELSE 0

Rest(a) == IF a = <<>> THEN <<>> ELSE Tail(a)

RECURSIVE NatTrim(_)
NatTrim(a) ==
    IF a = <<>> \/ a[Len(a)] # 0 THEN a ELSE NatTrim(SubSeq(a, 1, Len(a) - 1))

\* the magnitude of an integer 0 <= i < 2^31
NatOfInt(i) == NatTrim(<<i % 16384, (i \div 16384) % 16384, i \div 268435456>>)

RECURSIVE NatAddC(_, _, _)
NatAddC(a, b, c) ==
    IF a = <<>> /\ b = <<>> THEN (IF c = 0 THEN <<>> ELSE <<c>>)
    ELSE <<(Digit(a, 1) + Digit(b, 1) + c) % 16384>>
         \o NatAddC(Rest(a), Rest(b), (Digit(a, 1) + Digit(b, 1) + c) \div 16384)

NatAdd(a, b) == NatAddC(a, b, 0)

\* a - b - c for a >= b + c, not trimmed
RECURSIVE NatSubB(_, _, _)
NatSubB(a, b, c) ==
    IF a = <<>> THEN <<>>
    ELSE <<(a[1] - Digit(b, 1) - c + 16384) % 16384>>
         \o NatSubB(Tail(a), Rest(b), IF a[1] - Digit(b, 1) - c < 0 THEN 1 ELSE 0)

NatSub(a, b) == NatTrim(NatSubB(a, b, 0))

\* a < b for magnitudes of the same length, compared from digit i down
RECURSIVE NatLessFrom(_, _, _)
NatLessFrom(a, b, i) ==
    IF i = 0 THEN FALSE
    ELSE IF a[i] # b[i] THEN a[i] < b[i]
    ELSE NatLessFrom(a, b, i - 1)

NatLess(a, b) ==
    IF Len(a) # Len(b) THEN Len(a) < Len(b) ELSE NatLessFrom(a, b, Len(a))

\* a * m + c for a digit m, not trimmed
RECURSIVE NatMulC(_, _, _)
NatMulC(a, m, c) ==
    IF a = <<>> THEN (IF c = 0 THEN <<>> ELSE <<c>>)
    ELSE <<(a[1] * m + c) % 16384>> \o NatMulC(Tail(a), m, (a[1] * m + c) \div 16384)

NatMulDigit(a, m) == NatTrim(NatMulC(a, m, 0))

RECURSIVE NatMul(_, _)
NatMul(a, b) ==
    IF a = <<>> \/ b = <<>> THEN <<>>
    ELSE IF b[1] = 0 THEN <<0>> \o NatMul(a, Tail(b))
    ELSE NatTrim(NatAdd(NatMulC(a, b[1], 0), <<0>> \o NatMul(a, Tail(b))))

\* a * 2^bits
NatShl(a, bits) ==
    IF a = <<>> THEN <<>>
    ELSE [i \in 1..(bits \div 14) |-> 0] \o NatMulC(a, 2^(bits % 14), 0)

\* a \div 2^bits
NatShr(a, bits) ==
    LET kept == SubSeq(a, bits \div 14 + 1, Len(a))
        low == 2^(bits % 14)
    IN NatTrim([i \in 1..Len(kept) |->
                   (kept[i] \div low) + (Digit(kept, i + 1) % low) * (16384 \div low)])

RECURSIVE BitsOf(_)
BitsOf(i) == IF i = 0 THEN 0 ELSE 1 + BitsOf(i \div 2)

\* number of binary digits of a magnitude
BitLen(a) == IF a = <<>> THEN 0 ELSE 14 * (Len(a) - 1) + BitsOf(a[Len(a)])

\* binary digit i (from 0) of a magnitude
NatBit(a, i) == (Digit(a, i \div 14 + 1) \div 2^(i % 14)) % 2

\* the lowest `bits` binary digits of a magnitude are 0
NatLowZero(a, bits) ==
    /\ \A j \in 1..(bits \div 14) : Digit(a, j) = 0
    /\ Digit(a, bits \div 14 + 1) % 2^(bits % 14) = 0

\* the greatest digit q <= guess with d * q <= r, and r - d * q
RECURSIVE QuotientDigit(_, _, _)
QuotientDigit(r, d, guess) ==
    LET product == NatMulDigit(d, guess)
    IN IF NatLess(r, product) THEN QuotientDigit(r, d, guess - 1)
       ELSE [q |-> guess, r |-> NatSub(r, product)]

\* a guess of a quotient digit lowered while the second digit of the
\* divisor d1, d2, ... shows it too great (rest: what the guess leaves of
\* the two leading digits, next: the digit after them)
RECURSIVE LowerGuess(_, _, _, _, _)
LowerGuess(guess, rest, d1, d2, next) ==
    IF rest < 16384 /\ (guess > 16383 \/ guess * d2 > rest * 16384 + next)
    THEN LowerGuess(guess - 1, rest + d1, d1, d2, next)
    ELSE guess

\* r \div d and r % d for r < d * 2^14: the digit is guessed from the
\* leading digits, then lowered
Quotient(r, d) ==
    IF NatLess(r, d) THEN [q |-> 0, r |-> r]
    ELSE LET lead == Digit(r, Len(d) + 1) * 16384 + r[Len(d)]
             next == IF Len(d) > 1 THEN r[Len(d) - 1] ELSE 0
             d1 == d[Len(d)]
             d2 == IF Len(d) > 1 THEN d[Len(d) - 1] ELSE 0
             guess == LowerGuess(lead \div d1, lead % d1, d1, d2, next)
         IN QuotientDigit(r, d, IF guess > 16383 THEN 16383 ELSE guess)

\* long division of the digits i..1 of n by d, with r carried in:
\* quotient (not trimmed) and remainder
RECURSIVE NatDivFrom(_, _, _, _, _)
NatDivFrom(n, d, i, r, q) ==
    IF i = 0 THEN [q |-> q, r |-> r]
    ELSE LET digit == Quotient(NatTrim(<<n[i]>> \o r), d)
         IN NatDivFrom(n, d, i - 1, digit.r, <<digit.q>> \o q)

NatDivMod(n, d) == NatDivFrom(n, d, Len(n), <<>>, <<>>)

\* the integer of a magnitude below 2^31
RECURSIVE IntOfNat(_)
IntOfNat(a) == IF a = <<>> THEN 0 ELSE a[1] + 16384 * IntOfNat(Tail(a))

RECURSIVE OddPart(_)
OddPart(i) == IF i % 2 = 1 THEN i ELSE OddPart(i \div 2)

IsPow2(i) == i = 2^(BitsOf(i) - 1)

\* a number in the notation [kind |-> "b64", s, m, e], m of 53 binary digits
B64(s, m, e) == [kind |-> "b64", s |-> s, m |-> m, e |-> e]

\* the number s * n * 2^e (n # 0, and more below n if sticky) rounded to a
\* 53-bit significand, ties to even
Round(s, n, e, sticky) ==
    LET len == BitLen(n)
        drop == len - 53
        q == NatShr(n, drop)
        up == /\ NatBit(n, drop - 1) = 1
              /\ (sticky \/ ~NatLowZero(n, drop - 1) \/ q[1] % 2 = 1)
        r == IF up THEN NatAdd(q, <<1>>) ELSE q
    IN IF len <= 53 THEN B64(s, NatShl(n, 53 - len), e - (53 - len))
       ELSE IF BitLen(r) = 54 THEN B64(s, NatShr(r, 1), e + drop + 1)
       ELSE B64(s, r, e + drop)

\* the one notation of a number given as b64: "num" when it is n / 2^j with
\* n below 2^30 and 2^j at most 2^30
Canonical(x) ==
    IF x.kind # "b64" THEN x
    ELSE IF x.m[1] # 0 \/ x.m[2] % 512 # 0 THEN x
    ELSE LET high == IntOfNat(NatShr(x.m, 23))
             odd == OddPart(high)
             e2 == x.e + 23 + (BitsOf(high) - BitsOf(odd))
         IN IF e2 >= 0 /\ BitsOf(odd) + e2 <= 30 THEN F(x.s * odd * 2^e2)
            ELSE IF e2 < 0 /\ e2 >= -30
            THEN [kind |-> "num", n |-> x.s * odd, d |-> 2^(-e2)]
            ELSE x

BigMul(a, b) == Round(a.s * b.s, NatMul(a.m, b.m), a.e + b.e, FALSE)

\* the number of digits 0 at the low end of a magnitude (not 0)
RECURSIVE LowZeros(_)
LowZeros(a) == IF a[1] # 0 THEN 0 ELSE 1 + LowZeros(Tail(a))

\* a.m * 2^56 \div b.m has 56 or 57 binary digits; digits 0 at the low end
\* of the divisor are taken off both sides first
BigDiv(a, b) ==
    LET divisor == NatShl(b.m, 3)
        low == LowZeros(divisor)
        qr == NatDivMod(NatShl(a.m, 59 - 14 * low),
                        SubSeq(divisor, low + 1, Len(divisor)))
    IN IF a.m = b.m THEN B64(a.s * b.s, NatShl(<<1>>, 52), a.e - b.e - 52)
       ELSE Round(a.s * b.s, NatTrim(qr.q), a.e - b.e - 56, qr.r # <<>>)

\* a + b for a.e >= b.e; the exact sum or difference is rounded once
BigAddOrdered(a, b) ==
    LET big == NatShl(a.m, a.e - b.e)
    IN IF a.e - b.e > 60 THEN a
       ELSE IF a.s = b.s THEN Round(a.s, NatAdd(big, b.m), b.e, FALSE)
       ELSE IF big = b.m THEN F(0)
       ELSE IF NatLess(b.m, big) THEN Round(a.s, NatSub(big, b.m), b.e, FALSE)
       ELSE Round(b.s, NatSub(b.m, big), b.e, FALSE)

BigAdd(a, b) == IF a.e >= b.e THEN BigAddOrdered(a, b) ELSE BigAddOrdered(b, a)

\* a number (not 0) as b64; a "num" n / d with d no power of 2 is the
\* binary64 value nearest to n / d
Big(x) ==
    LET mag == NatOfInt(Abs(x.n))
        s == IF x.n < 0 THEN -1 ELSE 1
        den == NatOfInt(x.d)
    IN IF x.kind = "b64" THEN x
       ELSE IF IsPow2(x.d)
       THEN B64(s, NatShl(mag, 53 - BitLen(mag)), 1 - BitsOf(x.d) - (53 - BitLen(mag)))
       ELSE BigDiv(B64(s, NatShl(mag, 53 - BitLen(mag)), BitLen(mag) - 53),
                   B64(1, NatShl(den, 53 - BitLen(den)), BitLen(den) - 53))

\* n / 2^j with n and 2^j below 2^14: sums, products and dyadic quotients
\* of two such numbers are exact and small
SmallDyadic(x) == x.kind = "num" /\ IsPow2(x.d) /\ Abs(x.n) < 16384 /\ x.d < 16384

\* n / d with n and d below 2^15: two such numbers differ by more than
\* the rounding of either, so they compare as their fractions do
Short(x) == x.kind = "num" /\ Abs(x.n) < 32768 /\ x.d < 32768

Negative(x) == IF x.kind = "num" THEN x.n < 0 ELSE x.s < 0

\* x < y on floats; every comparison with NaN is false
FLess(x, y) ==
    CASE isnan(x) \/ isnan(y) -> FALSE
      [] x.kind = "inf" -> FALSE
      [] y.kind = "inf" -> TRUE
      [] Short(x) /\ Short(y) -> x.n * y.d < y.n * x.d
      [] IsZero(x) -> ~Negative(y)
      [] IsZero(y) -> Negative(x)
      [] Negative(x) # Negative(y) -> Negative(x)
      [] OTHER ->
           LET a == Big(x)
               b == Big(y)
               less == IF a.e # b.e THEN a.e < b.e ELSE NatLess(a.m, b.m)
               more == IF a.e # b.e THEN a.e > b.e ELSE NatLess(b.m, a.m)
           IN IF Negative(x) THEN more ELSE less

FLeq(x, y) == ~isnan(x) /\ ~isnan(y) /\ ~FLess(y, x)

\* n1/d1 + n2/d2 over the least common denominator
RatAdd(n1, d1, n2, d2) ==
    LET g == GCD(d1, d2)
    IN Num(n1 * (d2 \div g) + n2 * (d1 \div g), (d1 \div g) * d2)

\* (n1/d1) * (n2/d2), cancelling before multiplying
RatMul(n1, d1, n2, d2) ==
    LET g1 == GCD(Abs(n1), d2)
        g2 == GCD(Abs(n2), d1)
        a == IF g1 = 0 THEN 1 ELSE g1
        b == IF g2 = 0 THEN 1 ELSE g2
    IN Num((n1 \div a) * (n2 \div b), (d1 \div b) * (d2 \div a))

Neg(x) ==
    IF x.kind = "num" THEN [kind |-> "num", n |-> -x.n, d |-> x.d]
    ELSE B64(-x.s, x.m, x.e)

\* x + y of two numbers
NumAdd(x, y) ==
    IF IsZero(x) THEN y
    ELSE IF IsZero(y) THEN x
    ELSE IF SmallDyadic(x) /\ SmallDyadic(y) THEN RatAdd(x.n, x.d, y.n, y.d)
    ELSE Canonical(BigAdd(Big(x), Big(y)))

FAdd(x, y) ==
    CASE isnan(x) \/ isnan(y) -> NaN
      [] x.kind = "inf" \/ y.kind = "inf" -> Inf
      [] OTHER -> NumAdd(x, y)

FSub(x, y) ==
    CASE isnan(x) \/ isnan(y) -> NaN
      [] x.kind = "inf" /\ y.kind = "inf" -> NaN
      [] x.kind = "inf" -> Inf
      [] OTHER -> NumAdd(x, Neg(y))

\* abs(x)
FAbs(x) == IF isnan(x) THEN NaN ELSE IF Negative(x) THEN FSub(F(0), x) ELSE x

FMul(x, y) ==
    CASE isnan(x) \/ isnan(y) -> NaN
      [] x.kind = "inf" -> IF IsZero(y) THEN NaN ELSE Inf
      [] y.kind = "inf" -> IF IsZero(x) THEN NaN ELSE Inf
      [] IsZero(x) \/ IsZero(y) -> F(0)
      [] SmallDyadic(x) /\ SmallDyadic(y) -> RatMul(x.n, x.d, y.n, y.d)
      [] OTHER -> Canonical(BigMul(Big(x), Big(y)))

\* x / y (numpy: 1/0 is inf, 0/0 and inf/inf are nan, no exception)
FDiv(x, y) ==
    CASE isnan(x) \/ isnan(y) -> NaN
      [] x.kind = "inf" -> IF y.kind = "inf" THEN NaN ELSE Inf
      [] y.kind = "inf" -> F(0)
      [] IsZero(y) -> IF IsZero(x) THEN NaN ELSE Inf
      [] IsZero(x) -> F(0)
      [] SmallDyadic(x) /\ SmallDyadic(y) /\ y.n > 0
            /\ IsPow2(RatMul(x.n, x.d, y.d, y.n).d) ->
           RatMul(x.n, x.d, y.d, y.n)
      [] OTHER -> Canonical(BigDiv(Big(x), Big(y)))

RECURSIVE IPow(_, _)
IPow(b, e) == IF e = 0 THEN 1 ELSE b * IPow(b, e - 1)

\* x ** p for x >= 0 and an integer p >= 1
FPow(x, p) ==
    CASE isnan(x) -> NaN
      [] x.kind = "inf" -> Inf
      [] OTHER -> Num(IPow(x.n, p), IPow(x.d, p))

\* np.sqrt of a non-negative integer-valued float that is a perfect square
FSqrt(x) ==
    CASE isnan(x) -> NaN
      [] x.kind = "inf" -> Inf
      [] OTHER -> F(CHOOSE r \in 0..x.n : r * r = x.n)

----------------------------------------------------------------------------
(* The inputs the model draws from. *)

\* A missing table cell (an empty CSV field read by pandas) is NaN.
Positions == { <<F(0), F(0)>>, <<F(3), F(0)>>, <<F(-3), F(0)>>, <<F(0), F(4)>>,
               <<NaN, NaN>> }

Values == { NaN, F(10), F(30) }

\* A table cell that holds text, such as "n/a" where a reading is missing.
\* Its column is of dtype object; a None that is kept in an object column is
\* treated like it at lines 149 and 157.
Text == [kind |-> "str", n |-> 0, d |-> 1]

Targets == { <<F(0), F(0)>>, <<F(0), F(4)>> }

Rows == { [WGS84_Latitude |-> p[1], WGS84_Longitude |-> p[2], value |-> v] :
            p \in Positions, v \in Values }

\* a row whose value cell holds text
TextRow == [WGS84_Latitude |-> F(0), WGS84_Longitude |-> F(4), value |-> Text]

Columns == {"WGS84_Latitude", "WGS84_Longitude", "value"}

\* The table with these rows: a column of numbers and missing cells is
\* float64, a column with a text cell is object.  The table without rows is
\* the one that is left of a table of numbers when every row is filtered
\* away: its columns keep the dtype float64.
DataFrame(rows) ==
    [dtypes |-> [c \in Columns |->
                    IF \E i \in DOMAIN rows : rows[i][c] = Text THEN "object"
                    ELSE "float64"],
     rows |-> rows]

\* The DataFrame of a CSV file that holds the header line only: no row, and
\* every column object.
HeaderOnly == [dtypes |-> [c \in Columns |-> "object"], rows |-> <<>>]

\* The station tables: the tables of numbers and missing cells, the tables
\* whose last row holds text, and the table of a header-only file.
Tables ==
    { DataFrame(rows) : rows \in UNION { [1..n -> Rows] : n \in 0..MaxStations } }
        \cup { DataFrame(Append(rows, TextRow)) :
                    rows \in UNION { [1..n -> Rows] : n \in 0..(MaxStations - 1) } }
        \cup { HeaderOnly }

Ks == 1..(MaxStations + 1)

Powers == {1, 2, 3}

----------------------------------------------------------------------------
(* idw_interpolate, statement by statement. *)

Returned(v) == [outcome |-> "return", value |-> v]
Raised(e) == [outcome |-> "raise", value |-> NaN, exc |-> e]
NoCall == [outcome |-> "none", value |-> NaN]

\* Variant: the distance along the two axes, |lat - target_lat| +
\* |lon - target_lon|.
DistAlongAxes(row, tlat, tlon) ==
    FAdd(FAbs(FSub(row.WGS84_Latitude, tlat)), FAbs(FSub(row.WGS84_Longitude, tlon)))

\* coords / dists: np.sqrt((lat - target_lat)**2 + (lon - target_lon)**2)
Dist(row, tlat, tlon) ==
    FSqrt(FAdd(FPow(FSub(row.WGS84_Latitude, tlat), 2),
               FPow(FSub(row.WGS84_Longitude, tlon), 2)))

\* the coordinate columns of a table with rows are float64
Dists(df, tlat, tlon) ==
    [i \in 1..Len(df.rows) |-> Dist(df.rows[i], tlat, tlon)]

\* np.any(dists == 0)
AnyZero(dists) == \E i \in DOMAIN dists : IsZero(dists[i])

\* arr[mask]: the elements of arr whose mask entry is TRUE, in order
RECURSIVE BoolIndex(_, _)
BoolIndex(arr, mask) ==
    IF arr = <<>> THEN <<>>
    ELSE (IF Head(mask) THEN <<Head(arr)>> ELSE <<>>)
         \o BoolIndex(Tail(arr), Tail(mask))

\* Variant: the last coincident row instead of the first (.iloc[-1]).
ExactMatchLast(df, dists) ==
    LET hits == BoolIndex([i \in 1..Len(df.rows) |-> df.rows[i].value],
                          [i \in 1..Len(df.rows) |-> IsZero(dists[i])])
    IN IF hits = <<>> THEN Raised("IndexError") ELSE Returned(hits[Len(hits)])

\* Variant: missing values are dropped before the first row is taken
\* (.dropna().iloc[0]).
ExactMatchDropNaN(df, dists) ==
    LET hits == BoolIndex([i \in 1..Len(df.rows) |-> df.rows[i].value],
                          [i \in 1..Len(df.rows) |->
                              IsZero(dists[i]) /\ ~isnan(df.rows[i].value)])
    IN IF hits = <<>> THEN Raised("IndexError") ELSE Returned(Head(hits))

\* stations_df.loc[dists == 0, value_col].iloc[0]
ExactMatch(df, dists) ==
    LET hits == BoolIndex([i \in 1..Len(df.rows) |-> df.rows[i].value],
                          [i \in 1..Len(df.rows) |-> IsZero(dists[i])])
    IN IF hits = <<>> THEN Raised("IndexError") ELSE Returned(Head(hits))

\* The order np.sort gives two keys: ascending, NaN after every number.
SortsBefore(x, y) == (~isnan(x) /\ isnan(y)) \/ FLess(x, y)

Permutations(n) ==
    { p \in [1..n -> 1..n] : \A i, j \in 1..n : i # j => p[i] # p[j] }

\* np.argsort(dists) with the default kind ("quicksort", which is not
\* stable): any index order that sorts dists; the order of equal keys is
\* whatever the build's sort produces.
argsort(dists) ==
    { p \in Permutations(Len(dists)) :
        \A i, j \in 1..Len(dists) :
            i < j => ~SortsBefore(dists[p[j]], dists[p[i]]) }

\* The stable outcome of argsort: equal keys keep their input order.
StableArgsort(dists) ==
    CHOOSE p \in argsort(dists) :
        \A i, j \in 1..Len(dists) :
            (i < j /\ ~SortsBefore(dists[p[i]], dists[p[j]])) => p[i] < p[j]

\* Variant: one element too few (seq[:kk - 1]).
TakeOffByOne(seq, kk) ==
    SubSeq(seq, 1, IF kk - 1 < Len(seq) THEN kk - 1 ELSE Len(seq))

\* seq[:kk] for kk >= 0
Take(seq, kk) == SubSeq(seq, 1, IF kk < Len(seq) THEN kk ELSE Len(seq))

\* np.sum(arr)
RECURSIVE sum(_)
sum(arr) ==
    IF arr = <<>> THEN F(0)
    ELSE FAdd(sum(SubSeq(arr, 1, Len(arr) - 1)), arr[Len(arr)])

\* Variant: the normalisation weights /= weights.sum() is missing.
WeightsNotNormalized(valid_dists, pw) ==
    [i \in 1..Len(valid_dists) |-> FDiv(F(1), FPow(valid_dists[i], pw))]

\* weights = 1 / (valid_dists**power); weights /= weights.sum()
Weights(valid_dists, pw) ==
    LET raw == [i \in 1..Len(valid_dists) |->
                    FDiv(F(1), FPow(valid_dists[i], pw))]
        total == sum(raw)
    IN [i \in 1..Len(raw) |-> FDiv(raw[i], total)]

\* Lines 153-170: from nearest_idx to the returned value.  np.isnan at line
\* 157 has no loop for an array of dtype object and raises TypeError,
\* whatever the array holds.
Weighted(df, dists, idx, pw) ==
    LET nearest_dists == [i \in 1..Len(idx) |-> dists[idx[i]]]
        nearest_values == [i \in 1..Len(idx) |-> df.rows[idx[i]].value]
        valid_mask == [i \in 1..Len(idx) |-> ~isnan(nearest_values[i])]
        valid_dists == BoolIndex(nearest_dists, valid_mask)
        valid_values == BoolIndex(nearest_values, valid_mask)
        weights == Weights(valid_dists, pw)
    IN IF df.dtypes["value"] = "object"
       THEN Raised("TypeError")
       ELSE IF Len(valid_values) = 0
       THEN Returned(NaN)
       ELSE Returned(sum([i \in 1..Len(weights) |->
                            FMul(weights[i], valid_values[i])]))

\* Variant: rows with a missing value are dropped from the table before the
\* nearest stations are selected.
idw_dropna_first(df, tlat, tlon, kk, pw, order) ==
    LET kept == [dtypes |-> df.dtypes,
                 rows |-> BoolIndex(df.rows, [i \in 1..Len(df.rows) |->
                                                 ~isnan(df.rows[i].value)])]
        dists == Dists(kept, tlat, tlon)
        idx == Take(StableArgsort(dists), kk)
    IN IF AnyZero(dists)
       THEN [nearest_idx |-> <<>>, result |-> ExactMatch(kept, dists)]
       ELSE [nearest_idx |-> idx, result |-> Weighted(kept, dists, idx, pw)]

\* The body of idw_interpolate; order is the index order np.argsort(dists)
\* returned.  Gives the local nearest_idx and the outcome of the call.
idw_interpolate(df, tlat, tlon, kk, pw, order) ==
    LET dists == Dists(df, tlat, tlon)
        idx == Take(order, kk)
    IN IF AnyZero(dists)
       THEN [nearest_idx |-> <<>>, result |-> ExactMatch(df, dists)]
       ELSE [nearest_idx |-> idx, result |-> Weighted(df, dists, idx, pw)]

----------------------------------------------------------------------------
(* The state machine: a loaded station table and calls on it. *)

Init ==
    /\ stations_df \in Tables
    /\ \E t \in Targets : target_lat = t[1] /\ target_lon = t[2]
    /\ k \in Ks
    /\ power \in Powers
    /\ nearest_idx = <<>>
    /\ result = NoCall
    /\ pc = "call"
    /\ FnAtRest

\* The column c of the table: the buffer that holds its cells.
Column(df, c) == [i \in 1..Len(df.rows) |-> df.rows[i][c]]

\* the positions, in nearest_idx, of the selected stations that carry a value
ValidPositions(df, idx) ==
    BoolIndex([i \in 1..Len(idx) |-> i],
              [i \in 1..Len(idx) |-> ~isnan(df.rows[idx[i]].value)])

\* Variant: the weights are computed in the cells of the selected stations
\* of the table's value column.
StoresIntoTable(df, tlat, tlon, kk, pw, order) ==
    LET idx == Take(order, kk)
        valid == ValidPositions(df, idx)
    IN IF AnyZero(Dists(df, tlat, tlon)) \/ df.dtypes["value"] = "object"
          \/ Len(valid) = 0
       THEN <<>>
       ELSE <<[line |-> 167, buffer |-> "value",
               index |-> [i \in 1..Len(valid) |-> idx[valid[i]]]]>>

\* The stores of one call into arrays, in order: the statement, the buffer
\* and the cells that are written.  An array of the body lives in the
\* buffer named after the variable that is bound to it first: the selection
\* [[lat_col, lon_col]].values (line 144), the arithmetic of lines 145 and
\* 166, np.argsort (152), indexing with an index array or a mask (153, 158,
\* 159) and .iloc with an index array (154) each make a new buffer,
\* .loc[...].iloc[0] (149) reads one cell, and [:k] (152) is a view of the
\* buffer of np.argsort.  The one statement that writes into an array is
\* weights /= weights.sum() at line 167, into the buffer that line 166 made;
\* the lines before it return or raise when a station coincides with the
\* target, when the value column is object and when no selected station
\* carries a value.
Stores(df, tlat, tlon, kk, pw, order) ==
    LET idx == Take(order, kk)
        valid == ValidPositions(df, idx)
    IN IF AnyZero(Dists(df, tlat, tlon)) \/ df.dtypes["value"] = "object"
          \/ Len(valid) = 0
       THEN <<>>
       ELSE <<[line |-> 167, buffer |-> "weights",
               index |-> [i \in 1..Len(valid) |-> i]]>>

\* what the statement at line 167 writes: the normalized weights of the
\* selected stations that carry a value
Written(df, tlat, tlon, kk, pw, order) ==
    LET dists == Dists(df, tlat, tlon)
        idx == Take(order, kk)
        valid == ValidPositions(df, idx)
    IN Weights([i \in 1..Len(valid) |-> dists[idx[valid[i]]]], pw)

\* buffer[i] after the stores that write the values written; cell before
RECURSIVE CellAfter(_, _, _, _, _)
CellAfter(cell, buffer, i, stores, written) ==
    IF stores = <<>> THEN cell
    ELSE LET last == stores[Len(stores)]
             before == SubSeq(stores, 1, Len(stores) - 1)
         IN IF last.buffer = buffer /\ \E j \in DOMAIN last.index : last.index[j] = i
            THEN written[CHOOSE j \in DOMAIN last.index : last.index[j] = i]
            ELSE CellAfter(cell, buffer, i, before, written)

\* The caller's table after a call: its columns with the stores the call
\* made into their buffers; the table as it was when no store went there.
TableAfter(df, tlat, tlon, kk, pw, order) ==
    LET stores == Stores(df, tlat, tlon, kk, pw, order)
        written == Written(df, tlat, tlon, kk, pw, order)
    IN IF \A j \in DOMAIN stores : stores[j].buffer \notin Columns THEN df
       ELSE [dtypes |-> df.dtypes,
             rows |-> [i \in 1..Len(df.rows) |->
                          [c \in Columns |->
                              CellAfter(Column(df, c)[i], c, i, stores, written)]]]

\* One call idw_interpolate(stations_df, target_lat, target_lon, k=k, power=power)
Interpolate ==
    /\ pc = "call"
    /\ \E order \in argsort(Dists(stations_df, target_lat, target_lon)) :
         \E r \in {idw_interpolate(stations_df, target_lat, target_lon,
                                   k, power, order)} :
            /\ nearest_idx' = r.nearest_idx
            /\ result' = r.result
            /\ stations_df' = TableAfter(stations_df, target_lat, target_lon,
                                         k, power, order)
    /\ pc' = "returned"
    /\ UNCHANGED <<target_lat, target_lon, k, power>>
    /\ UNCHANGED fn_vars

\* The caller asks for the next estimate on the same table.
NextCall ==
    /\ pc = "returned"
    /\ \E t \in Targets : target_lat' = t[1] /\ target_lon' = t[2]
    /\ k' \in Ks
    /\ power' \in Powers
    /\ nearest_idx' = <<>>
    /\ result' = NoCall
    /\ pc' = "call"
    /\ UNCHANGED stations_df
    /\ UNCHANGED fn_vars

Next == Interpolate \/ NextCall

Spec == Init /\ [][Next]_vars

----------------------------------------------------------------------------
(* Vocabulary of the properties, over the current table and call. *)

N == Len(stations_df.rows)

\* distance of every row from the target of the current call
D == Dists(stations_df, target_lat, target_lon)

Val(i) == stations_df.rows[i].value

Coincident(i) == IsZero(D[i])

SomeCoincident == \E i \in 1..N : Coincident(i)

FirstCoincident ==
    CHOOSE i \in 1..N : Coincident(i) /\ \A j \in 1..(i - 1) : ~Coincident(j)

\* Row i is among the k nearest under some order of the equal distances:
\* fewer than k rows sort strictly before it.
CouldBeSelected(i) ==
    Cardinality({ j \in 1..N : SortsBefore(D[j], D[i]) }) < k

\* positions, in nearest_idx, of the selected rows that carry a value
SelectedDefined == { i \in 1..Len(nearest_idx) : ~isnan(Val(nearest_idx[i])) }

\* the rows that carry a position
Positioned ==
    [dtypes |-> stations_df.dtypes,
     rows |-> BoolIndex(stations_df.rows,
                        [i \in 1..N |-> ~isnan(stations_df.rows[i].WGS84_Latitude)
                                        /\ ~isnan(stations_df.rows[i].WGS84_Longitude)])]

\* the value column holds numbers and missing cells only (dtype float64)
NumericValues == stations_df.dtypes["value"] = "float64"

----------------------------------------------------------------------------
(* C1: if some station is at distance 0 from the target, the call returns  *)
(* the stored value of the first such station in input order, whatever k,  *)
(* power and the other stations are.                                       *)
C1_ExactMatchFirst ==
    (pc = "returned" /\ SomeCoincident)
        => result = Returned(Val(FirstCoincident))

C1_Witness ==
    /\ pc = "returned"
    /\ N = 2
    /\ Coincident(1) /\ Coincident(2)
    /\ Val(1) = F(30) /\ Val(2) = F(10)
    /\ result = Returned(F(30))

(* C2: if the first coincident station has a missing value, the call       *)
(* returns NaN as it is, also when other stations carry values.            *)
C2_ExactMatchMissing ==
    (pc = "returned" /\ SomeCoincident /\ isnan(Val(FirstCoincident)))
        => (result.outcome = "return" /\ isnan(result.value))

C2_Witness ==
    /\ pc = "returned"
    /\ N = 2
    /\ k = 2
    /\ Coincident(1) /\ isnan(Val(1))
    /\ IsNum(D[2]) /\ Val(2) = F(10)
    /\ result = Returned(NaN)

(* C3: with no station at distance 0, if every station that can be among   *)
(* the k nearest has a missing value the call returns NaN, even when a     *)
(* farther station carries a value.  A missing value is a NaN of a float64 *)
(* column; what the call does with a column of dtype object is under C8.   *)
C3_SelectionBeforeFilter ==
    (/\ pc = "returned"
     /\ NumericValues
     /\ ~SomeCoincident
     /\ \A i \in 1..N : CouldBeSelected(i) => isnan(Val(i)))
        => result = Returned(NaN)

C3_Witness ==
    /\ pc = "returned"
    /\ ~SomeCoincident
    /\ \A i \in 1..N : CouldBeSelected(i) => isnan(Val(i))
    /\ \E i \in 1..N : ~CouldBeSelected(i) /\ IsNum(D[i]) /\ ~isnan(Val(i))
    /\ result = Returned(NaN)

(* C4: with no station at distance 0, if exactly one of the k nearest      *)
(* stations has a defined value v, the call returns exactly v.             *)
C4_SingleDefined ==
    (pc = "returned" /\ ~SomeCoincident /\ Cardinality(SelectedDefined) = 1)
        => \A i \in SelectedDefined : result = Returned(Val(nearest_idx[i]))

(* C5: with no station at distance 0 and a defined value among the k       *)
(* nearest, the normalized weights are non-negative and sum to 1 and the   *)
(* result lies between the least and the greatest defined selected value.  *)
C5_ConvexCombination ==
    (pc = "returned" /\ ~SomeCoincident /\ SelectedDefined # {})
        => LET valid_dists ==
                   BoolIndex([i \in 1..Len(nearest_idx) |-> D[nearest_idx[i]]],
                             [i \in 1..Len(nearest_idx) |-> i \in SelectedDefined])
               weights == Weights(valid_dists, power)
           IN /\ \A i \in 1..Len(weights) : FLeq(F(0), weights[i])
              /\ sum(weights) = F(1)
              /\ result.outcome = "return"
              /\ \E i \in SelectedDefined : FLeq(Val(nearest_idx[i]), result.value)
              /\ \E i \in SelectedDefined : FLeq(result.value, Val(nearest_idx[i]))

(* C6: two stations at the same non-zero distance with values a and b,     *)
(* every other station farther away, k = 2: the call returns (a + b) / 2,  *)
(* in either input order and for every power.  The values are numbers of  *)
(* a float64 column; a column of dtype object is under C8.                 *)
C6_Symmetry ==
    pc = "returned" /\ k = 2 /\ NumericValues
        => \A i, j \in 1..N :
             (/\ i # j
              /\ IsNum(D[i]) /\ ~IsZero(D[i]) /\ D[i] = D[j]
              /\ ~isnan(Val(i)) /\ ~isnan(Val(j))
              /\ \A m \in 1..N \ {i, j} : SortsBefore(D[i], D[m]))
                => result = Returned(FDiv(FAdd(Val(i), Val(j)), F(2)))

C6_Witness ==
    /\ pc = "returned"
    /\ k = 2
    /\ N = 2
    /\ IsNum(D[1]) /\ ~IsZero(D[1]) /\ D[1] = D[2]
    /\ stations_df.rows[1].WGS84_Latitude # stations_df.rows[2].WGS84_Latitude
    /\ Val(1) = F(30) /\ Val(2) = F(10)
    /\ result = Returned(F(20))

(* C7: a call with k greater than the number of stations returns what the  *)
(* call with k equal to the number of stations returns; np.argsort puts    *)
(* the same distances in the same order in both calls.                     *)
C7_KSaturation ==
    (pc = "returned" /\ k > N)
        => \A order \in argsort(D) :
             (Len(nearest_idx) = N => order = nearest_idx)
                => result = idw_interpolate(stations_df, target_lat, target_lon,
                                            N, power, order).result

C7_Witness ==
    /\ pc = "returned"
    /\ N = 2
    /\ k > N
    /\ Len(nearest_idx) = 2
    /\ Val(1) = F(10) /\ Val(2) = F(30)
    /\ D[1] # D[2]
    /\ IsNum(result.value)

(* C8: a call never raises, whatever the table holds; it returns a number *)
(* or NaN, and NaN when the table is empty or no station carries both a    *)
(* position and a value.                                                   *)
C8_NeverRaises ==
    pc = "returned"
        => /\ result.outcome = "return"
           /\ IsNum(result.value) \/ isnan(result.value)
           /\ (\A i \in 1..N : isnan(Val(i)) \/ isnan(D[i]))
                 => isnan(result.value)

(* C9: the stations selected are the first k of the stable order by        *)
(* distance (among equal distances those that come first in the input),    *)
(* so the call returns the value computed from that selection.             *)
C9_StableTieBreak ==
    pc = "returned"
        => result = idw_interpolate(stations_df, target_lat, target_lon,
                                    k, power, StableArgsort(D)).result

(* C10: the result equals the result of the call on the table without the  *)
(* stations that carry no position, for every k.                           *)
C10_PositionlessExcluded ==
    pc = "returned"
        => \E order \in argsort(Dists(Positioned, target_lat, target_lon)) :
             result = idw_interpolate(Positioned, target_lat, target_lon,
                                      k, power, order).result

----------------------------------------------------------------------------
(* Python values handed to parse_coords and float().  A string is the      *)
(* sequence of its lexemes: a digit, ".", "/", " ", "-", "+", the words    *)
(* "nan" and "inf", and "x" for any character float() does not know.       *)

NegInf == [kind |-> "inf", n |-> -1, d |-> 1]

PyNone == [t |-> "none", s |-> <<>>, x |-> NaN]
PyStr(s) == [t |-> "str", s |-> s, x |-> NaN]
PyInt(i) == [t |-> "int", s |-> <<>>, x |-> F(i)]
PyFloat(x) == [t |-> "float", s |-> <<>>, x |-> x]
\* an int beyond the range of a float, such as 10**400
PyBigInt == [t |-> "bigint", s |-> <<>>, x |-> NaN]
\* a value of a type float() does not accept, such as a list
PyList == [t |-> "list", s |-> <<>>, x |-> NaN]
\* an exception raised in place of a value
PyExc(name) == [t |-> "exc", s |-> <<name>>, x |-> NaN]

IsExc(v) == v.t = "exc"
IsNone(v) == v.t = "none"

\* outcome of a call: a returned value, or an exception that reaches the caller
Ret(v) == [outcome |-> "return", value |-> v]
Exc(name) == [outcome |-> "raise", value |-> name]
NoRet == [outcome |-> "none"]

Lexemes == {"1", "5", ".", "/", " ", "-", "nan", "inf", "x"}

StringsUpTo(n) == UNION {[1..m -> Lexemes] : m \in 0..n}

Digits == {"0", "1", "2", "3", "4", "5", "6", "7", "8", "9"}

DigitVal(c) ==
    CASE c = "0" -> 0 [] c = "1" -> 1 [] c = "2" -> 2 [] c = "3" -> 3
      [] c = "4" -> 4 [] c = "5" -> 5 [] c = "6" -> 6 [] c = "7" -> 7
      [] c = "8" -> 8 [] c = "9" -> 9

DigitOf(i) ==
    CASE i = 0 -> "0" [] i = 1 -> "1" [] i = 2 -> "2" [] i = 3 -> "3"
      [] i = 4 -> "4" [] i = 5 -> "5" [] i = 6 -> "6" [] i = 7 -> "7"
      [] i = 8 -> "8" [] i = 9 -> "9"

\* str.strip(): leading and trailing whitespace removed
RECURSIVE strip(_)
strip(s) ==
    IF s = <<>> THEN s
    ELSE IF Head(s) = " " THEN strip(Tail(s))
    ELSE IF s[Len(s)] = " " THEN strip(SubSeq(s, 1, Len(s) - 1))
    ELSE s

\* "/" in s
HasSlash(s) == \E i \in DOMAIN s : s[i] = "/"

\* s.split("/", 1) of a string that has a "/": cut at the first one
split(s) ==
    LET i == CHOOSE j \in DOMAIN s :
                 s[j] = "/" /\ \A h \in 1..(j - 1) : s[h] # "/"
    IN <<SubSeq(s, 1, i - 1), SubSeq(s, i + 1, Len(s))>>

\* the number written by a run of decimal digits
RECURSIVE DigitsVal(_)
DigitsVal(ds) ==
    IF ds = <<>> THEN 0
    ELSE 10 * DigitsVal(SubSeq(ds, 1, Len(ds) - 1)) + DigitVal(ds[Len(ds)])

\* digits [. [digits]] or . digits
IsDecimal(u) ==
    /\ \A i \in DOMAIN u : u[i] \in Digits \cup {"."}
    /\ Cardinality({i \in DOMAIN u : u[i] = "."}) <= 1
    /\ \E i \in DOMAIN u : u[i] \in Digits

\* the value of a decimal literal, truncated to its integer part
DecimalTruncated(u) ==
    LET dot == IF \E i \in DOMAIN u : u[i] = "."
               THEN CHOOSE i \in DOMAIN u : u[i] = "." ELSE Len(u) + 1
    IN F(DigitsVal(SubSeq(u, 1, dot - 1)))

\* the value of a decimal literal
DecimalVal(u) ==
    LET dot == IF \E i \in DOMAIN u : u[i] = "."
               THEN CHOOSE i \in DOMAIN u : u[i] = "." ELSE Len(u) + 1
        ip == SubSeq(u, 1, dot - 1)
        fp == SubSeq(u, dot + 1, Len(u))
        scale == IPow(10, Len(fp))
    IN Num(DigitsVal(ip) * scale + DigitsVal(fp), scale)

\* float() of a string: surrounding whitespace is ignored, then an optional
\* sign and a decimal literal, "nan" or "inf"; anything else is a ValueError
float_str(s) ==
    LET t == strip(s)
        signed == t # <<>> /\ t[1] \in {"-", "+"}
        neg == t # <<>> /\ t[1] = "-"
        u == IF signed THEN Tail(t) ELSE t
    IN CASE u = <<"nan">> -> PyFloat(NaN)
         [] u = <<"inf">> -> PyFloat(IF neg THEN NegInf ELSE Inf)
         [] u \notin {<<"nan">>, <<"inf">>} /\ IsDecimal(u) ->
                LET v == DecimalVal(u)
                IN PyFloat(IF neg THEN Num(-v.n, v.d) ELSE v)
         [] OTHER -> PyExc("ValueError")

\* float(v)
float(v) ==
    CASE v.t = "float" -> v
      [] v.t = "int" -> PyFloat(v.x)
      [] v.t = "bigint" -> PyExc("OverflowError")
      [] v.t = "str" -> float_str(v.s)
      [] OTHER -> PyExc("TypeError")

\* try: return float(a), float(b)  except (ValueError, TypeError): return None, None
FloatPair(a, b) ==
    LET fa == float(a)
        fb == float(b)
        raised == IF IsExc(fa) THEN fa ELSE fb
    IN IF ~IsExc(fa) /\ ~IsExc(fb) THEN Ret(<<fa, fb>>)
       ELSE IF raised.s[1] \in {"ValueError", "TypeError"}
            THEN Ret(<<PyNone, PyNone>>)
            ELSE Exc(raised.s[1])

\* a parse_coords that converts each value on its own
parse_coords_partial(easting_raw, northing_raw) ==
    IF easting_raw.t = "str" /\ HasSlash(easting_raw.s)
    THEN LET parts == split(easting_raw.s)
         IN FloatPair(PyStr(strip(parts[1])), PyStr(strip(parts[2])))
    ELSE LET fa == float(easting_raw)
             fb == float(northing_raw)
         IN Ret(<<IF IsExc(fa) THEN PyNone ELSE fa,
                  IF IsExc(fb) THEN PyNone ELSE fb>>)

parse_coords(easting_raw, northing_raw) ==
    IF easting_raw.t = "str" /\ HasSlash(easting_raw.s)
    THEN LET parts == split(easting_raw.s)
         IN FloatPair(PyStr(strip(parts[1])), PyStr(strip(parts[2])))
    ELSE IF IsNone(easting_raw) /\ IsNone(northing_raw)
    THEN Ret(<<PyNone, PyNone>>)
    ELSE IF IsNone(easting_raw) # IsNone(northing_raw)
    THEN Ret(<<PyNone, PyNone>>)
    ELSE FloatPair(easting_raw, northing_raw)

\* str() of a non-negative int
RECURSIVE IntDigits(_)
IntDigits(i) ==
    IF i < 10 THEN <<DigitOf(i)>>
    ELSE Append(IntDigits(i \div 10), DigitOf(i % 10))

\* f"{v}" of an int, or of a float that has at most one decimal place
Format(v) ==
    LET sign == IF v.x.n < 0 THEN <<"-">> ELSE <<>>
        tenths == Abs(v.x.n) * (10 \div v.x.d)
    IN CASE v.t = "int" -> sign \o IntDigits(Abs(v.x.n))
         [] v.t = "float" /\ isnan(v.x) -> <<"nan">>
         [] v.t = "float" /\ v.x = Inf -> <<"inf">>
         [] v.t = "float" /\ v.x = NegInf -> <<"-", "inf">>
         [] v.t = "float" /\ IsNum(v.x) ->
                sign \o IntDigits(tenths \div 10) \o <<".">>
                     \o <<DigitOf(tenths % 10)>>

\* f"{e}/{n}"
FormatPair(e, n) == Format(e) \o <<"/">> \o Format(n)

----------------------------------------------------------------------------
(* parse_coords: the inputs of one call, and the call *)

Numbers ==
    {PyInt(2), PyInt(-7), PyInt(10), PyFloat(F(2)), PyFloat(Num(3, 2)),
     PyFloat(Num(-1, 2))}

NonStrings == Numbers \cup {PyNone, PyList, PyBigInt, PyFloat(NaN), PyFloat(Inf)}

\* every value: the strings up to the bound and the non-strings
RawValues == {PyStr(s) : s \in StringsUpTo(MaxStrLen)} \cup NonStrings

\* the values paired with every other value
FewValues == {PyStr(s) : s \in StringsUpTo(1)} \cup NonStrings

RawPairs == (RawValues \X FewValues) \cup (FewValues \X RawValues)

\* idw_interpolate is not being called
IdwAtRest ==
    /\ stations_df = DataFrame(<<>>)
    /\ target_lat = F(0)
    /\ target_lon = F(0)
    /\ k = 1
    /\ power = 2
    /\ nearest_idx = <<>>
    /\ result = NoCall
    /\ pc = "idle"

InitParse ==
    /\ IdwAtRest
    /\ \E p \in RawPairs :
         call = [fn |-> "parse_coords", easting_raw |-> p[1], northing_raw |-> p[2]]
    /\ world = [kind |-> "none"]
    /\ ret = NoRet
    /\ log = <<>>
    /\ io = <<>>
    /\ step = "call"

ParseCoords ==
    /\ step = "call"
    /\ call.fn = "parse_coords"
    /\ ret' = parse_coords(call.easting_raw, call.northing_raw)
    /\ step' = "returned"
    /\ UNCHANGED <<call, world, log, io>>
    /\ UNCHANGED idw_vars

NextParse == ParseCoords

SpecParse == InitParse /\ [][NextParse]_vars

----------------------------------------------------------------------------
(* parse_coords: the claims *)

ParseReturned == step = "returned" /\ call.fn = "parse_coords"

\* the call takes the "easting/northing" branch
Joined == call.easting_raw.t = "str" /\ HasSlash(call.easting_raw.s)

NoPair == Ret(<<PyNone, PyNone>>)

\* C13: parse_coords never raises; it returns two floats or (None, None),
\* never a pair with exactly one None.
C13_NeverRaisesAtomic ==
    ParseReturned =>
        /\ ret.outcome = "return"
        /\ \/ ret = NoPair
           \/ ret.value[1].t = "float" /\ ret.value[2].t = "float"

\* C14: with separately supplied values, exactly one of which is absent,
\* parse_coords returns (None, None), whatever the present value is.
C14_OneAbsentIsNoPair ==
    (/\ ParseReturned
     /\ ~Joined
     /\ IsNone(call.easting_raw) # IsNone(call.northing_raw))
        => ret = NoPair

C14_Witness ==
    /\ ParseReturned
    /\ call.easting_raw = PyFloat(Num(3, 2))
    /\ IsNone(call.northing_raw)
    /\ ret = NoPair

\* C15: parse_coords returns a pair only if both components are finite
\* floats; a NaN or infinite component yields (None, None).
C15_FinitePair ==
    (ParseReturned /\ ret.outcome = "return" /\ ret # NoPair)
        => IsNum(ret.value[1].x) /\ IsNum(ret.value[2].x)

\* C16: for valid numbers e and n, parse_coords(e, n), parse_coords of the
\* string f"{e}/{n}" with no second value, and parse_coords of the two
\* strings f"{e}" and f"{n}" return the same pair.
C16_RoundTrip ==
    (/\ ParseReturned
     /\ call.easting_raw \in Numbers
     /\ call.northing_raw \in Numbers)
        => /\ ret.outcome = "return" /\ ret # NoPair
           /\ ret = parse_coords(
                        PyStr(FormatPair(call.easting_raw, call.northing_raw)),
                        PyNone)
           /\ ret = parse_coords(PyStr(Format(call.easting_raw)),
                                 PyStr(Format(call.northing_raw)))

C16_Witness ==
    /\ ParseReturned
    /\ call.easting_raw = PyFloat(Num(3, 2))
    /\ call.northing_raw = PyInt(-7)
    /\ ret = Ret(<<PyFloat(Num(3, 2)), PyFloat(F(-7))>>)
    /\ FormatPair(call.easting_raw, call.northing_raw)
           = <<"1", ".", "5", "/", "-", "7">>

----------------------------------------------------------------------------
(* The external HTTP services.  `world` holds what the service does with   *)
(* the one request of a call: requests.get raises (no connection, timeout) *)
(* or hands back a response with a status and a body; the body is not      *)
(* JSON, or is a JSON value.                                               *)

\* JSON bodies: a dict (a function from its keys to values), or another value
JDict(d) == [j |-> "dict", d |-> d]
JOther(j) == [j |-> j, d |-> <<>>]

NetworkErrors == {"ConnectionError", "Timeout"}

\* statuses of the responses requests.get hands back: a success, a final
\* redirection status (no Location to follow), a client and a server error
Statuses == {200, 300, 404, 503}

HttpWorld(get, status, body) ==
    [kind |-> "http", get |-> get, status |-> status, body |-> body]

\* every body with status 200, the bodies errbodies with the other statuses
HttpWorlds(bodies, errbodies) ==
    {HttpWorld(e, 200, JOther("null")) : e \in NetworkErrors}
        \cup {HttpWorld("ok", 200, b) : b \in bodies}
        \cup {HttpWorld("ok", st, b) : st \in Statuses \ {200}, b \in errbodies}

Failed(name) == [ok |-> FALSE, exc |-> name, data |-> JOther("null")]
Loaded(data) == [ok |-> TRUE, exc |-> "", data |-> data]

\* requests.get(...); raise_for_status(); json()
HttpJson(w) ==
    IF w.get # "ok" THEN Failed(w.get)
    ELSE IF w.status >= 400 /\ w.status < 600 THEN Failed("HTTPError")
    ELSE IF w.body.j = "malformed" THEN Failed("JSONDecodeError")
    ELSE Loaded(w.body)

\* data[key]
GetItem(data, key) ==
    IF data.j # "dict" THEN Failed("TypeError")
    ELSE IF key \notin DOMAIN data.d THEN Failed("KeyError")
    ELSE Loaded(data.d[key])

\* the request a call sends
Request(url, params, timeout) ==
    [url |-> url, params |-> params, timeout |-> timeout]

\* logger.error(f"{msg} {subject}: {e}")
ErrorLog(msg, subject, e) ==
    [level |-> "error", msg |-> msg, subject |-> subject, exc |-> e]

----------------------------------------------------------------------------
(* swiss_lv95_to_wgs84 *)

SwissRequest(easting, northing) ==
    Request("https://geodesy.geo.admin.ch/reframe/lv95towgs84",
            [easting |-> easting, northing |-> northing, format |-> "json"], 5)

SwissFailure(easting, northing, e) ==
    [ret |-> Ret(<<PyNone, PyNone>>),
     log |-> <<ErrorLog("Conversion failed for", <<easting, northing>>, e)>>,
     io |-> <<SwissRequest(easting, northing)>>]

\* a swiss_lv95_to_wgs84 that returns (latitude, longitude)
swiss_lv95_to_wgs84_swapped(easting, northing, w) ==
    LET resp == HttpJson(w)
        e == GetItem(resp.data, "easting")
        n == GetItem(resp.data, "northing")
    IN IF ~resp.ok THEN SwissFailure(easting, northing, resp.exc)
       ELSE IF ~e.ok THEN SwissFailure(easting, northing, e.exc)
       ELSE IF ~n.ok THEN SwissFailure(easting, northing, n.exc)
       ELSE [ret |-> Ret(<<n.data, e.data>>), log |-> <<>>,
             io |-> <<SwissRequest(easting, northing)>>]

swiss_lv95_to_wgs84(easting, northing, w) ==
    LET resp == HttpJson(w)
        e == GetItem(resp.data, "easting")
        n == GetItem(resp.data, "northing")
    IN IF ~resp.ok THEN SwissFailure(easting, northing, resp.exc)
       ELSE IF ~e.ok THEN SwissFailure(easting, northing, e.exc)
       ELSE IF ~n.ok THEN SwissFailure(easting, northing, n.exc)
       ELSE [ret |-> Ret(<<e.data, n.data>>), log |-> <<>>,
             io |-> <<SwissRequest(easting, northing)>>]

Eastings == {F(2600000), F(2683141), F(0)}
Northings == {F(1200000), F(0)}

\* values of the response's fields
JsonNumbers == {PyFloat(Num(744, 100)), PyFloat(Num(4695, 100)), PyNone}

SwissBodies ==
    {JOther("malformed"), JOther("null"), JOther("list")}
        \cup {JDict(d) : d \in UNION {[ks -> JsonNumbers] :
                                ks \in SUBSET {"easting", "northing"}}}

InitSwiss ==
    /\ IdwAtRest
    /\ \E e \in Eastings, n \in Northings :
         call = [fn |-> "swiss_lv95_to_wgs84", easting |-> e, northing |-> n]
    /\ world \in HttpWorlds(SwissBodies, SwissBodies)
    /\ ret = NoRet
    /\ log = <<>>
    /\ io = <<>>
    /\ step = "call"

SwissLv95ToWgs84 ==
    /\ step = "call"
    /\ call.fn = "swiss_lv95_to_wgs84"
    /\ LET r == swiss_lv95_to_wgs84(call.easting, call.northing, world)
       IN /\ ret' = r.ret
          /\ log' = log \o r.log
          /\ io' = io \o r.io
    /\ step' = "returned"
    /\ UNCHANGED <<call, world>>
    /\ UNCHANGED idw_vars

NextSwiss == SwissLv95ToWgs84

SpecSwiss == InitSwiss /\ [][NextSwiss]_vars

SwissReturned == step = "returned" /\ call.fn = "swiss_lv95_to_wgs84"

\* the external call fails: no response, a status that is not 2xx, a body
\* that is not JSON, or a JSON value without the key `easting` or `northing`
SwissCallFails ==
    \/ world.get \in NetworkErrors
    \/ world.status \notin 200..299
    \/ world.body.j # "dict"
    \/ ~({"easting", "northing"} \subseteq DOMAIN world.body.d)

\* C11: swiss_lv95_to_wgs84 never raises; on any failure of the external
\* call it returns (None, None) and logs one diagnostic that contains the
\* easting and the northing of the call.
C11_FailureIsNoPairAndLog ==
    SwissReturned =>
        /\ ret.outcome = "return"
        /\ SwissCallFails =>
             /\ ret = NoPair
             /\ Len(log) = 1
             /\ log[1].subject = <<call.easting, call.northing>>

\* C12: on success swiss_lv95_to_wgs84 returns (longitude, latitude) in that
\* order: the response's field `easting`, then its field `northing`.
C12_LongitudeLatitude ==
    (SwissReturned /\ ~SwissCallFails) =>
        /\ ret = Ret(<<world.body.d["easting"], world.body.d["northing"]>>)
        /\ log = <<>>

C12_Witness ==
    /\ SwissReturned
    /\ ~SwissCallFails
    /\ call.easting = F(2600000) /\ call.northing = F(1200000)
    /\ ret = Ret(<<PyFloat(Num(744, 100)), PyFloat(Num(4695, 100))>>)

----------------------------------------------------------------------------
(* get_wgs84_municipality *)

JList(items) == [j |-> "list", d |-> items]

\* a returned tuple (a, b)
PyTuple(a, b) == [t |-> "tuple", s |-> <<a, b>>, x |-> NaN]

MuniRequest(name) ==
    Request("https://api3.geo.admin.ch/rest/services/api/SearchServer",
            [searchText |-> name, type |-> "locations", limit |-> 5], 10)

\* d.get(key, default) of a JSON value
DictGet(data, key, default) ==
    IF data.j # "dict" THEN Failed("AttributeError")
    ELSE IF key \in DOMAIN data.d THEN Loaded(data.d[key])
    ELSE Loaded(default)

\* float(geom["lat"]), float(geom["lon"])
LatLon(geom) ==
    LET lat == GetItem(geom, "lat")
        flat == float(lat.data)
        lon == GetItem(geom, "lon")
        flon == float(lon.data)
    IN IF ~lat.ok THEN Failed(lat.exc)
       ELSE IF IsExc(flat) THEN Failed(flat.s[1])
       ELSE IF ~lon.ok THEN Failed(lon.exc)
       ELSE IF IsExc(flon) THEN Failed(flon.s[1])
       ELSE Loaded(PyTuple(flat, flon))

\* a loop that keeps the last candidate with a featureId
RECURSIVE ScanLast(_, _)
ScanLast(results, i) ==
    IF i > Len(results) THEN Loaded(PyNone)
    ELSE LET attrs == GetItem(results[i], "attrs")
             fid == DictGet(attrs.data, "featureId", PyNone)
             rest == ScanLast(results, i + 1)
         IN IF ~attrs.ok THEN Failed(attrs.exc)
            ELSE IF ~fid.ok THEN Failed(fid.exc)
            ELSE IF ~rest.ok THEN rest
            ELSE IF ~IsNone(fid.data) /\ rest.data = PyNone
            THEN LatLon(attrs.data)
            ELSE rest

\* for res in results: if res["attrs"].get("featureId") is not None: return ...
RECURSIVE Scan(_, _)
Scan(results, i) ==
    IF i > Len(results) THEN Loaded(PyNone)
    ELSE LET attrs == GetItem(results[i], "attrs")
             fid == DictGet(attrs.data, "featureId", PyNone)
         IN IF ~attrs.ok THEN Failed(attrs.exc)
            ELSE IF ~fid.ok THEN Failed(fid.exc)
            ELSE IF ~IsNone(fid.data) THEN LatLon(attrs.data)
            ELSE Scan(results, i + 1)

\* the try block after the request: results = r.json().get("results", []), the loop
Lookup(data) ==
    LET results == DictGet(data, "results", JList(<<>>))
    IN IF ~results.ok THEN results
       ELSE IF results.data.j = "list" THEN Scan(results.data.d, 1)
       ELSE IF results.data.j = "dict" /\ DOMAIN results.data.d = {}
       THEN Loaded(PyNone)
       ELSE Failed("TypeError")

\* a get_wgs84_municipality that sends the request again after a failed one
get_wgs84_municipality_retry(name, w) ==
    LET resp == HttpJson(w)
        found == Lookup(resp.data)
        e == IF ~resp.ok THEN resp.exc ELSE found.exc
    IN IF ~resp.ok
       THEN [ret |-> Ret(PyNone),
             log |-> <<ErrorLog("Municipality lookup failed for", name, e)>>,
             io |-> <<MuniRequest(name), MuniRequest(name)>>]
       ELSE IF ~found.ok
       THEN [ret |-> Ret(PyNone),
             log |-> <<ErrorLog("Municipality lookup failed for", name, e)>>,
             io |-> <<MuniRequest(name)>>]
       ELSE [ret |-> Ret(found.data), log |-> <<>>, io |-> <<MuniRequest(name)>>]

get_wgs84_municipality(name, w) ==
    LET resp == HttpJson(w)
        found == Lookup(resp.data)
        e == IF ~resp.ok THEN resp.exc ELSE found.exc
    IN IF ~resp.ok \/ ~found.ok
       THEN [ret |-> Ret(PyNone),
             log |-> <<ErrorLog("Municipality lookup failed for", name, e)>>,
             io |-> <<MuniRequest(name)>>]
       ELSE [ret |-> Ret(found.data), log |-> <<>>, io |-> <<MuniRequest(name)>>]

MuniNames == {"Bern", "Steinhausen"}

\* attrs of a candidate: featureId may be missing or null; lat and lon are
\* numbers or strings, and may be missing or unparseable
FeatureIds == {PyNone, PyInt(351)}

LatLons ==
    {<<>>,
     [lat |-> PyFloat(Num(4695, 100)), lon |-> PyStr(<<"7", ".", "4", "4">>)],
     [lat |-> PyStr(<<"4", "7", ".", "5">>), lon |-> PyStr(<<"7", ".", "4", "4">>)],
     [lat |-> PyFloat(Num(4695, 100))],
     [lat |-> PyFloat(Num(4695, 100)), lon |-> PyStr(<<"x">>)]}

\* the dict with the items of f and of g (their keys differ)
Merge(f, g) ==
    IF DOMAIN g = {} THEN f
    ELSE IF DOMAIN f = {} THEN g
    ELSE [ky \in DOMAIN f \cup DOMAIN g |-> IF ky \in DOMAIN f THEN f[ky] ELSE g[ky]]

Partial(key, values) == {<<>>} \cup {[ky \in {key} |-> v] : v \in values}

Attrs ==
    {JDict(Merge(f, c)) : f \in Partial("featureId", FeatureIds), c \in LatLons}

\* candidates: with attrs, without attrs, with attrs that is null
Candidates ==
    {JDict([ky \in {"attrs"} |-> a]) : a \in Attrs}
        \cup {JDict(<<>>), JDict([ky \in {"attrs"} |-> JOther("null")])}

CandidateLists == UNION {[1..n -> Candidates] : n \in 0..MaxCandidates}

MuniBodies ==
    {JOther("malformed"), JOther("null"), JOther("list"), JDict(<<>>),
     JDict([ky \in {"results"} |-> JOther("null")]),
     JDict([ky \in {"results"} |-> JDict(<<>>)])}
        \cup {JDict([ky \in {"results"} |-> JList(cs)]) : cs \in CandidateLists}

\* bodies sent with an error status
MuniErrorBodies ==
    {JOther("malformed"), JDict(<<>>)}
        \cup {JDict([ky \in {"results"} |-> JList(<<c>>)]) : c \in Candidates}

InitMuni ==
    /\ IdwAtRest
    /\ \E name \in MuniNames : call = [fn |-> "get_wgs84_municipality", name |-> name]
    /\ world \in HttpWorlds(MuniBodies, MuniErrorBodies)
    /\ ret = NoRet
    /\ log = <<>>
    /\ io = <<>>
    /\ step = "call"

GetWgs84Municipality ==
    /\ step = "call"
    /\ call.fn = "get_wgs84_municipality"
    /\ LET r == get_wgs84_municipality(call.name, world)
       IN /\ ret' = r.ret
          /\ log' = log \o r.log
          /\ io' = io \o r.io
    /\ step' = "returned"
    /\ UNCHANGED <<call, world>>
    /\ UNCHANGED idw_vars

NextMuni == GetWgs84Municipality

SpecMuni == InitMuni /\ [][NextMuni]_vars

----------------------------------------------------------------------------
(* get_wgs84_municipality: the claims *)

MuniReturned == step = "returned" /\ call.fn = "get_wgs84_municipality"

\* the service answered with a JSON object that has a `results` array
Answered ==
    /\ world.get = "ok" /\ world.status = 200
    /\ world.body.j = "dict"
    /\ "results" \in DOMAIN world.body.d
    /\ world.body.d["results"].j = "list"

Cands == world.body.d["results"].d

\* candidate c has an attrs object
HasAttrs(c) == "attrs" \in DOMAIN c.d /\ c.d["attrs"].j = "dict"

\* candidate c has an attrs object with a non-null featureId
Qualifies(c) ==
    /\ HasAttrs(c)
    /\ "featureId" \in DOMAIN c.d["attrs"].d
    /\ ~IsNone(c.d["attrs"].d["featureId"])

\* candidate c has an attrs object whose featureId is null or absent
Unqualified(c) == HasAttrs(c) /\ ~Qualifies(c)

\* candidate i is the first with a featureId, after unqualified candidates
FirstQualifying(i) ==
    /\ i \in DOMAIN Cands
    /\ Qualifies(Cands[i])
    /\ \A j \in 1..(i - 1) : Unqualified(Cands[j])

\* candidate c carries a latitude and a longitude that float() accepts
HasCoordinates(c) ==
    /\ {"lat", "lon"} \subseteq DOMAIN c.d["attrs"].d
    /\ ~IsExc(float(c.d["attrs"].d["lat"]))
    /\ ~IsExc(float(c.d["attrs"].d["lon"]))

CoordinatesOf(c) ==
    PyTuple(float(c.d["attrs"].d["lat"]), float(c.d["attrs"].d["lon"]))

\* C17: get_wgs84_municipality scans the candidates in the service's order
\* and returns (latitude, longitude) of the first candidate whose featureId
\* is non-null: candidates before it with a null or absent featureId are
\* skipped, candidates after it are never used.
C17_FirstQualifying ==
    (MuniReturned /\ Answered) =>
        \A i \in DOMAIN Cands :
            FirstQualifying(i) =>
                IF HasCoordinates(Cands[i])
                THEN ret = Ret(CoordinatesOf(Cands[i])) /\ log = <<>>
                ELSE ret = Ret(PyNone)

\* a candidate without featureId is skipped, and the qualifying candidate
\* after the returned one has other coordinates
C17_Witness ==
    /\ MuniReturned /\ Answered
    /\ Len(Cands) = 3
    /\ Unqualified(Cands[1])
    /\ FirstQualifying(2) /\ HasCoordinates(Cands[2])
    /\ Qualifies(Cands[3]) /\ HasCoordinates(Cands[3])
    /\ CoordinatesOf(Cands[3]) # CoordinatesOf(Cands[2])
    /\ ret = Ret(PyTuple(PyFloat(Num(4695, 100)), PyFloat(Num(744, 100))))

\* the request fails: no response, a status that is not 2xx, or a payload
\* that is not a JSON object with a `results` array (or with none at all)
MuniRequestFails ==
    \/ world.get \in NetworkErrors
    \/ world.status \notin 200..299
    \/ world.body.j # "dict"
    \/ /\ "results" \in DOMAIN world.body.d
       /\ world.body.d["results"].j \notin {"list", "dict"}

\* no candidate has a non-null featureId
NoneQualifies ==
    /\ world.get = "ok" /\ world.status = 200
    /\ world.body.j = "dict"
    /\ \/ "results" \notin DOMAIN world.body.d
       \/ /\ world.body.d["results"].j = "list"
          /\ \A i \in DOMAIN Cands : Unqualified(Cands[i])

\* C18: get_wgs84_municipality never raises; it returns None if no candidate
\* has a non-null featureId (also with an empty or absent `results`) or if
\* the request fails, and a failure logs a diagnostic with the queried name.
C18_NoResult ==
    MuniReturned =>
        /\ ret.outcome = "return"
        /\ NoneQualifies => ret = Ret(PyNone)
        /\ MuniRequestFails =>
             /\ ret = Ret(PyNone)
             /\ Len(log) = 1
             /\ log[1].level = "error" /\ log[1].subject = call.name

----------------------------------------------------------------------------
(* GetFeesByParameters.  A DataFrame is its set of columns, its index       *)
(* labels and its rows, in order; a row holds one cell per column.          *)

Frame(columns, index, rows) == [columns |-> columns, index |-> index, rows |-> rows]

\* an empty cell of a text column, read as NaN
NaNCell == "<NaN>"

\* cell == value, elementwise: NaN equals nothing
CellEq(cell, value) == cell # NaNCell /\ cell = value

required_columns ==
    <<"Kanton", "Region", "Unfalleinschluss", "Altersklasse",
      "Franchise", "Tariftyp", "Altersuntergruppe">>

\* [col for col in required_columns if col not in Data.columns]
Missing(Data) ==
    SelectSeq(required_columns, LAMBDA col : col \notin Data.columns)

\* Data[mask]: the rows whose position is in keep, with their index labels
RECURSIVE KeptPositions(_, _, _)
KeptPositions(n, keep, i) ==
    IF i > n THEN <<>>
    ELSE (IF i \in keep THEN <<i>> ELSE <<>>) \o KeptPositions(n, keep, i + 1)

BoolMask(Data, keep) ==
    LET ps == KeptPositions(Len(Data.rows), keep, 1)
    IN Frame(Data.columns,
             [j \in DOMAIN ps |-> Data.index[ps[j]]],
             [j \in DOMAIN ps |-> Data.rows[ps[j]]])

\* reset_index(drop=True)
reset_index(Data) ==
    Frame(Data.columns, [j \in DOMAIN Data.rows |-> j - 1], Data.rows)

\* the first filter: six equalities
SixEqual(row, Kanton, Region, Altersklasse, Unfalldeckung, Franchise, Tariftyp) ==
    /\ CellEq(row.Kanton, Kanton)
    /\ CellEq(row.Region, Region)
    /\ CellEq(row.Unfalleinschluss, Unfalldeckung)
    /\ CellEq(row.Altersklasse, Altersklasse)
    /\ row.Franchise = Franchise
    /\ CellEq(row.Tariftyp, Tariftyp)

\* a GetFeesByParameters that filters the subgroup for every age class
GetFeesAnyClass(Data, Kanton, Region, Altersklasse, Unfalldeckung, Franchise, Tariftyp, Altersgruppe) ==
    IF Missing(Data) # <<>> THEN Exc("ValueError")
    ELSE LET filtered ==
                 BoolMask(Data, {i \in DOMAIN Data.rows :
                     SixEqual(Data.rows[i], Kanton, Region, Altersklasse,
                              Unfalldeckung, Franchise, Tariftyp)})
             children ==
                 IF Altersgruppe # ""
                 THEN BoolMask(filtered, {i \in DOMAIN filtered.rows :
                          CellEq(filtered.rows[i].Altersuntergruppe, Altersgruppe)})
                 ELSE filtered
         IN Ret(reset_index(children))

GetFeesByParameters(Data, Kanton, Region, Altersklasse, Unfalldeckung, Franchise, Tariftyp, Altersgruppe) ==
    IF Missing(Data) # <<>> THEN Exc("ValueError")
    ELSE LET filtered ==
                 BoolMask(Data, {i \in DOMAIN Data.rows :
                     SixEqual(Data.rows[i], Kanton, Region, Altersklasse,
                              Unfalldeckung, Franchise, Tariftyp)})
             children ==
                 IF Altersklasse = "AKL-KIN" /\ Altersgruppe # ""
                 THEN BoolMask(filtered, {i \in DOMAIN filtered.rows :
                          CellEq(filtered.rows[i].Altersuntergruppe, Altersgruppe)})
                 ELSE filtered
         IN Ret(reset_index(children))

AllColumns ==
    {"Kanton", "Region", "Unfalleinschluss", "Altersklasse", "Franchise",
     "Tariftyp", "Altersuntergruppe", "Praemie"}

FeeRow(kanton, region, unfall, klasse, franchise, tarif, gruppe) ==
    [Kanton |-> kanton, Region |-> region, Unfalleinschluss |-> unfall,
     Altersklasse |-> klasse, Franchise |-> franchise, Tariftyp |-> tarif,
     Altersuntergruppe |-> gruppe, Praemie |-> 0]

\* rows of canton ZH, Region1, with accident cover, franchise 300, standard
\* tariff, of both age classes and every subgroup; and rows that differ from
\* these in one column
FeeRows ==
    {FeeRow("ZH", "Region1", "Ja", kl, 300, "Standard", gr) :
         kl \in {"AKL-KIN", "AKL-ERW"}, gr \in {"0-18", "19-25", NaNCell}}
    \cup {FeeRow("BE", "Region1", "Ja", "AKL-KIN", 300, "Standard", "0-18"),
          FeeRow("ZH", "Region2", "Ja", "AKL-KIN", 300, "Standard", "0-18"),
          FeeRow("ZH", "Region1", "Nein", "AKL-KIN", 300, "Standard", "0-18"),
          FeeRow("ZH", "Region1", "Ja", "AKL-KIN", 500, "Standard", "0-18"),
          FeeRow("ZH", "Region1", "Ja", "AKL-KIN", 300, "Hausarztmodell", "0-18")}

\* a table: its i-th row has index label 10 * i and premium 100 * i
FeeTable(columns, rows) ==
    Frame(columns,
          [i \in DOMAIN rows |-> 10 * i],
          [i \in DOMAIN rows |-> [rows[i] EXCEPT !.Praemie = 100 * i]])

\* all columns, or all but one required column
ColumnSets == {AllColumns} \cup {AllColumns \ {c} : c \in AllColumns \ {"Praemie"}}

FeeTables ==
    {FeeTable(cs, rs) : cs \in ColumnSets,
                        rs \in UNION {[1..n -> FeeRows] : n \in 0..MaxFeeRows}}

InitFees ==
    /\ IdwAtRest
    /\ \E kl \in {"AKL-KIN", "AKL-ERW"}, gr \in {"", "0-18"} :
         call = [fn |-> "GetFeesByParameters", Kanton |-> "ZH",
                 Region |-> "Region1", Altersklasse |-> kl,
                 Unfalldeckung |-> "Ja", Franchise |-> 300,
                 Tariftyp |-> "Standard", Altersgruppe |-> gr]
    /\ \E Data \in FeeTables : world = [kind |-> "frame", Data |-> Data]
    /\ ret = NoRet
    /\ log = <<>>
    /\ io = <<>>
    /\ step = "call"

GetFees ==
    /\ step = "call"
    /\ call.fn = "GetFeesByParameters"
    /\ ret' = GetFeesByParameters(world.Data, call.Kanton, call.Region,
                 call.Altersklasse, call.Unfalldeckung, call.Franchise,
                 call.Tariftyp, call.Altersgruppe)
    /\ step' = "returned"
    /\ UNCHANGED <<call, world, log, io>>
    /\ UNCHANGED idw_vars

NextFees == GetFees

SpecFees == InitFees /\ [][NextFees]_vars

FeesReturned == step = "returned" /\ call.fn = "GetFeesByParameters"

\* row i of Data equals the six parameters
MatchesSix(i) ==
    LET row == world.Data.rows[i]
    IN /\ row.Kanton = call.Kanton
       /\ row.Region = call.Region
       /\ row.Unfalleinschluss = call.Unfalldeckung
       /\ row.Altersklasse = call.Altersklasse
       /\ row.Franchise = call.Franchise
       /\ row.Tariftyp = call.Tariftyp

SubgroupApplies == call.Altersklasse = "AKL-KIN" /\ call.Altersgruppe # ""

\* the rows the claim says are returned
Wanted ==
    {i \in DOMAIN world.Data.rows :
        /\ MatchesSix(i)
        /\ SubgroupApplies =>
               world.Data.rows[i].Altersuntergruppe = call.Altersgruppe}

\* C19: GetFeesByParameters returns exactly the rows of Data that equal the
\* six parameters, in their original order and with a fresh 0-based index;
\* the Altersuntergruppe filter applies if and only if Altersklasse is
\* 'AKL-KIN' and Altersgruppe is non-empty; a missing required column
\* raises ValueError.
C19_ExactRows ==
    FeesReturned =>
        IF \E c \in AllColumns \ {"Praemie"} : c \notin world.Data.columns
        THEN ret = Exc("ValueError")
        ELSE /\ ret.outcome = "return"
             /\ Len(ret.value.rows) = Cardinality(Wanted)
             /\ \A i \in Wanted :
                    \E j \in DOMAIN ret.value.rows :
                        ret.value.rows[j] = world.Data.rows[i]
             /\ \A j1, j2 \in DOMAIN ret.value.rows :
                    j1 < j2 => ret.value.rows[j1].Praemie < ret.value.rows[j2].Praemie
             /\ \A j \in DOMAIN ret.value.index : ret.value.index[j] = j - 1
             /\ Len(ret.value.index) = Len(ret.value.rows)
             /\ ret.value.columns = world.Data.columns

\* rows 1 and 3 are returned, row 2 is left out by the subgroup filter
C19_Witness ==
    /\ FeesReturned
    /\ call.Altersklasse = "AKL-KIN" /\ call.Altersgruppe = "0-18"
    /\ world.Data.columns = AllColumns
    /\ Len(world.Data.rows) = 3
    /\ Wanted = {1, 3}
    /\ MatchesSix(2)
    /\ ret.outcome = "return"
    /\ ret.value.index = <<0, 1>>
    /\ ret.value.rows = <<world.Data.rows[1], world.Data.rows[3]>>

----------------------------------------------------------------------------
(* GetKVNameFromBAGNumber.  `world` holds, for each candidate sheet name,   *)
(* what pd.read_excel does when asked for it: raise ValueError (no such     *)
(* sheet), raise another exception, or hand back the sheet as a DataFrame.  *)
(* `io` is the list of the sheets read so far.                              *)

sheet_names == <<"Zugelassene Krankenversicherer", "zugelassene krankenversicherer">>

ReadRaises(e) == [kind |-> e, Data |-> Frame({}, <<>>, <<>>)]
ReadLoads(Data) == [kind |-> "loaded", Data |-> Data]

\* what one pass of the loop body does: go on with the next sheet, or return
Continue(prints) == [decided |-> FALSE, ret |-> NoRet, log |-> prints]
Return(v, prints) == [decided |-> TRUE, ret |-> Ret(v), log |-> prints]

\* Data.loc[Data['Nummer'] == BAGNumber, 'Name']
NamesOf(Data, BAGNumber) ==
    LET hits == KeptPositions(Len(Data.rows),
                              {i \in DOMAIN Data.rows : Data.rows[i].Nummer = BAGNumber}, 1)
    IN [j \in DOMAIN hits |-> Data.rows[hits[j]].Name]

\* the part of the loop body that follows a successful read
Decide(Data, BAGNumber, Sheet) ==
    LET found == NamesOf(Data, BAGNumber)
    IN IF {"Nummer", "Name"} \subseteq Data.columns
       THEN IF found # <<>>
            THEN IF found[1].t = "str"
                 THEN Return(PyStr(strip(found[1].s)), <<<<"loaded", Sheet>>>>)
                 ELSE Return(PyNone, <<<<"loaded", Sheet>>,
                                       <<"error", "AttributeError">>>>)
            ELSE Return(PyNone, <<<<"loaded", Sheet>>, <<"not found", BAGNumber>>>>)
       ELSE Continue(<<<<"loaded", Sheet>>, <<"columns not found">>>>)

\* a loop body whose every exception moves on to the next sheet
LoopBodyAlwaysContinue(read, BAGNumber, Sheet) ==
    IF read.kind = "loaded" THEN Decide(read.Data, BAGNumber, Sheet)
    ELSE Continue(<<>>)

\* the loop body: try: read, decide; except ValueError: continue;
\* except Exception: print, return None
LoopBody(read, BAGNumber, Sheet) ==
    IF read.kind = "loaded" THEN Decide(read.Data, BAGNumber, Sheet)
    ELSE IF read.kind = "ValueError" THEN Continue(<<>>)
    ELSE Return(PyNone, <<<<"error", read.kind>>>>)

BAGNumbers == {123, 999}

InsurerNames == {PyStr(<<"A">>), PyStr(<<" ", "B", " ">>), PyFloat(NaN)}

InsurerRows == {[Nummer |-> n, Name |-> name] : n \in {123, 456}, name \in InsurerNames}

Sheets ==
    {Frame({"Nummer", "Name"}, [i \in DOMAIN rs |-> i - 1], rs) :
         rs \in UNION {[1..n -> InsurerRows] : n \in 0..MaxSheetRows}}
    \cup {Frame(cs, <<0>>, <<[Nummer |-> 123, Name |-> PyStr(<<"A">>)]>>) :
              cs \in {{"Nummer"}, {"Name", "Ort"}}}

Reads ==
    {ReadRaises("ValueError"), ReadRaises("FileNotFoundError")}
        \cup {ReadLoads(Data) : Data \in Sheets}

InitKV ==
    /\ IdwAtRest
    /\ \E n \in BAGNumbers :
         call = [fn |-> "GetKVNameFromBAGNumber", BAGNumber |-> n, pth |-> "kv.xlsx"]
    /\ \E sheets \in [DOMAIN sheet_names -> Reads] :
         world = [kind |-> "workbook", sheets |-> sheets]
    /\ ret = NoRet
    /\ log = <<>>
    /\ io = <<>>
    /\ step = "loop"

\* one pass of `for Sheet in sheet_names`
ReadSheet ==
    /\ step = "loop"
    /\ call.fn = "GetKVNameFromBAGNumber"
    /\ Len(io) < Len(sheet_names)
    /\ LET i == Len(io) + 1
           r == LoopBody(world.sheets[i], call.BAGNumber, sheet_names[i])
       IN /\ io' = Append(io, sheet_names[i])
          /\ log' = log \o r.log
          /\ ret' = r.ret
          /\ step' = IF r.decided THEN "returned" ELSE "loop"
    /\ UNCHANGED <<call, world>>
    /\ UNCHANGED idw_vars

\* after the loop: print, return None
NoSheetFound ==
    /\ step = "loop"
    /\ call.fn = "GetKVNameFromBAGNumber"
    /\ Len(io) = Len(sheet_names)
    /\ ret' = Ret(PyNone)
    /\ log' = Append(log, <<"no sheet found">>)
    /\ step' = "returned"
    /\ UNCHANGED <<call, world, io>>
    /\ UNCHANGED idw_vars

NextKV == ReadSheet \/ NoSheetFound

SpecKV == InitKV /\ [][NextKV]_vars

KVReturned == step = "returned" /\ call.fn = "GetKVNameFromBAGNumber"

\* reading sheet i ends the lookup: it raises something other than
\* ValueError, or it loads with the columns 'Nummer' and 'Name'
Decisive(i) ==
    \/ world.sheets[i].kind \notin {"loaded", "ValueError"}
    \/ /\ world.sheets[i].kind = "loaded"
       /\ {"Nummer", "Name"} \subseteq world.sheets[i].Data.columns

\* the rows of sheet i with the number looked up
MatchingRows(i) ==
    {h \in DOMAIN world.sheets[i].Data.rows :
        world.sheets[i].Data.rows[h].Nummer = call.BAGNumber}

FirstMatch(i) ==
    world.sheets[i].Data.rows[
        CHOOSE h \in MatchingRows(i) : \A g \in MatchingRows(i) : h <= g]

\* the result that sheet i decides (names are text; a matching row whose
\* name cell is empty has no name to strip and gives None)
Decided(i) ==
    IF world.sheets[i].kind # "loaded" \/ MatchingRows(i) = {} THEN PyNone
    ELSE IF FirstMatch(i).Name.t = "str" THEN PyStr(strip(FirstMatch(i).Name.s))
    ELSE PyNone

\* C20: the sheet names are tried in order; a ValueError moves on to the
\* next name; any other exception ends the lookup with None after that
\* read; the first sheet that loads with the columns 'Nummer' and 'Name'
\* decides the result (stripped name of the first matching row, None if
\* the number is absent) and no further sheet is read; if no sheet
\* succeeds the result is None.
C20_SheetsInOrder ==
    /\ call.fn = "GetKVNameFromBAGNumber" =>
           /\ Len(io) <= Len(sheet_names)
           /\ \A i \in DOMAIN io : io[i] = sheet_names[i]
           /\ \A i \in DOMAIN io : i < Len(io) => ~Decisive(i)
    /\ KVReturned =>
           IF \E i \in DOMAIN sheet_names : Decisive(i)
           THEN /\ Decisive(Len(io))
                /\ ret = Ret(Decided(Len(io)))
           ELSE /\ Len(io) = Len(sheet_names)
                /\ ret = Ret(PyNone)

\* the first sheet is missing, the second decides: the name of its first
\* matching row, stripped
C20_Witness ==
    /\ KVReturned
    /\ world.sheets[1].kind = "ValueError"
    /\ world.sheets[2].kind = "loaded"
    /\ Cardinality(MatchingRows(2)) = 2
    /\ FirstMatch(2).Name = PyStr(<<" ", "B", " ">>)
    /\ io = sheet_names
    /\ ret = Ret(PyStr(<<"B">>))

----------------------------------------------------------------------------
(* The MeteoSwiss downloader (getStations.py), run again and again on one  *)
(* output directory.  `world` holds the station list the service answers   *)
(* and the files of the output directory; `call` the run under way, how     *)
(* the run before it ended and the asset the loop is at; `io` the           *)
(* requests sent so far (the station list and the downloads), each with     *)
(* its run; `log` the records the run under way has written.  A transfer    *)
(* completes, or fails before the file is opened, or fails after the file   *)
(* was opened and some chunks were written; a failure ends the run.         *)

STAC_URL ==
    "https://data.geo.admin.ch/api/stac/v1/collections/ch.meteoschweiz.ogd-smn/items"

\* station_id: props.get("station") if it is a non-empty string, else feat["id"]
StationId(feat) == IF feat.station # "" THEN feat.station ELSE feat.id

\* the assets of one feature, in the order of feat["assets"].items()
AssetsOf(feat) ==
    [a \in DOMAIN feat.assets |->
        [fname |-> <<StationId(feat), feat.assets[a]>>,
         href |-> <<feat.id, feat.assets[a]>>]]

\* the assets the two nested loops visit, in order
RECURSIVE WorkItems(_)
WorkItems(features) ==
    IF features = <<>> THEN <<>>
    ELSE AssetsOf(Head(features)) \o WorkItems(Tail(features))

\* a downloader that does not look at the output directory
AlwaysDownload(files, fname) == TRUE

\* not os.path.exists(outpath)
ShouldDownload(files, fname) == files[fname] = "absent"

\* download_file: the request, then open(path, "wb") and the chunks
download_file(files, fname, transfer) ==
    IF transfer = "request failed" THEN files
    ELSE IF transfer = "interrupted" THEN [files EXCEPT ![fname] = "partial"]
    ELSE [files EXCEPT ![fname] = "complete"]

Transfers == {"complete", "request failed", "interrupted"}

StationFeatures ==
    {[id |-> i, station |-> st, assets |-> as] :
        i \in {"ABO", "BER"}, st \in {"", "abo"},
        as \in {<<"t">>, <<"h">>, <<"t", "h">>}}

FeatureLists == UNION {[1..n -> StationFeatures] : n \in 0..MaxFeatures}

FileNames(features) ==
    {WorkItems(features)[i].fname : i \in DOMAIN WorkItems(features)}

Run(n, previous, next) ==
    [fn |-> "getStations", run |-> n, previous |-> previous, next |-> next]

InitDownload ==
    /\ IdwAtRest
    /\ call = Run(1, "none", 1)
    /\ \E features \in FeatureLists :
         world = [kind |-> "downloader", features |-> features,
                  files |-> [f \in FileNames(features) |-> "absent"]]
    /\ ret = NoRet
    /\ log = <<>>
    /\ io = <<>>
    /\ step = "fetch"

\* lines 39-44: the first record, the request for the station list, then
\* the second record, or the run ends with the error of the request
FetchStations ==
    /\ step = "fetch"
    /\ call.fn = "getStations"
    /\ io' = Append(io, [kind |-> "list", run |-> call.run, url |-> STAC_URL,
                         params |-> [limit |-> 200]])
    /\ \E ok \in BOOLEAN :
         IF ok
         THEN /\ log' = log \o <<<<"info", "Fetching station list...">>,
                                  <<"info", "Found", Len(world.features),
                                    "stations. Starting download">>>>
              /\ step' = "loop"
              /\ ret' = ret
         ELSE /\ log' = Append(log, <<"info", "Fetching station list...">>)
              /\ step' = "aborted"
              /\ ret' = Exc("RequestException")
    /\ UNCHANGED <<call, world>>
    /\ UNCHANGED idw_vars

\* one pass of the inner loop: skip the asset, or download it
ProcessAsset ==
    /\ step = "loop"
    /\ call.fn = "getStations"
    /\ call.next <= Len(WorkItems(world.features))
    /\ LET item == WorkItems(world.features)[call.next]
       IN IF ShouldDownload(world.files, item.fname)
          THEN \E transfer \in Transfers :
                 /\ io' = Append(io, [kind |-> "download", run |-> call.run,
                                      href |-> item.href, fname |-> item.fname])
                 /\ log' = Append(log, <<"info", "Downloading", item.fname>>)
                 /\ world' = [world EXCEPT
                       !.files = download_file(world.files, item.fname, transfer)]
                 /\ IF transfer = "complete"
                    THEN /\ call' = [call EXCEPT !.next = call.next + 1]
                         /\ UNCHANGED <<ret, step>>
                    ELSE /\ step' = "aborted"
                         /\ ret' = Exc("RequestException")
                         /\ call' = call
          ELSE /\ log' = Append(log, <<"debug", "Skipping", item.fname>>)
               /\ call' = [call EXCEPT !.next = call.next + 1]
               /\ UNCHANGED <<world, io, ret, step>>
    /\ UNCHANGED idw_vars

\* line 61: the loops are over
DownloadComplete ==
    /\ step = "loop"
    /\ call.fn = "getStations"
    /\ call.next > Len(WorkItems(world.features))
    /\ log' = Append(log, <<"success", "Download complete!">>)
    /\ step' = "done"
    /\ ret' = Ret(PyNone)
    /\ UNCHANGED <<call, world, io>>
    /\ UNCHANGED idw_vars

\* the script is started again on the same output directory
RunAgain ==
    /\ step \in {"done", "aborted"}
    /\ call.fn = "getStations"
    /\ call.run < MaxRuns
    /\ call' = Run(call.run + 1, step, 1)
    /\ step' = "fetch"
    /\ ret' = NoRet
    /\ log' = <<>>
    /\ UNCHANGED <<world, io>>
    /\ UNCHANGED idw_vars

NextDownload == FetchStations \/ ProcessAsset \/ DownloadComplete \/ RunAgain

SpecDownload == InitDownload /\ [][NextDownload]_vars

\* the pass of the loop that is about to happen is at an asset
AtAsset ==
    /\ call.fn = "getStations" /\ step = "loop"
    /\ call.next <= Len(WorkItems(world.features))

NextItem == WorkItems(world.features)[call.next]

IsDownload(request) == request.kind = "download"

\* the downloads among the requests sent so far
Downloads == SelectSeq(io, IsDownload)

\* C21: the downloader downloads an asset if and only if its target file
\* does not yet exist; a run that follows a complete run issues no download
\* and leaves every file unchanged.
C21_DownloadIffAbsent ==
    [][/\ (AtAsset /\ world.files[NextItem.fname] = "absent")
             => /\ Len(Downloads') = Len(Downloads) + 1
                /\ io'[Len(io')].kind = "download"
                /\ io'[Len(io')].fname = NextItem.fname
                /\ io'[Len(io')].href = NextItem.href
       /\ (AtAsset /\ world.files[NextItem.fname] # "absent")
             => Downloads' = Downloads /\ world' = world
       /\ ~AtAsset => Downloads' = Downloads /\ world' = world
       /\ (call.fn = "getStations" /\ call.previous = "done")
             => Downloads' = Downloads /\ world' = world]_vars

\* a second run has ended after a complete first run that downloaded two
\* files: it issued no download
C21_Witness ==
    /\ call.fn = "getStations"
    /\ call.run = 2 /\ call.previous = "done" /\ step = "done"
    /\ Len(Downloads) = 2
    /\ \A i \in DOMAIN Downloads : Downloads[i].run = 1
    /\ \E i \in DOMAIN io : io[i].kind = "list" /\ io[i].run = 2
    /\ \A f \in DOMAIN world.files : world.files[f] = "complete"

\* C29: after any sequence of runs, also runs ended by a failure in the
\* middle of a transfer, every file of the output directory is a complete
\* download (no interrupted download is left behind for later runs to skip).
C29_OnlyCompleteFiles ==
    (call.fn = "getStations" /\ step \in {"done", "aborted"}) =>
        \A f \in DOMAIN world.files : world.files[f] \in {"absent", "complete"}

----------------------------------------------------------------------------
(* idw_interpolate: the reference estimator, in exact arithmetic.  The     *)
(* coordinates and the values of the model's tables are whole numbers, and *)
(* so are the distances between its positions and its targets.             *)

\* the planar Euclidean distance in degrees between station i and the
\* target; -1 when the station has no position
ReferenceDistance(i) ==
    LET row == stations_df.rows[i]
        dlat == row.WGS84_Latitude.n - target_lat.n
        dlon == row.WGS84_Longitude.n - target_lon.n
    IN IF isnan(row.WGS84_Latitude) \/ isnan(row.WGS84_Longitude) THEN -1
       ELSE CHOOSE r \in 0..(Abs(dlat) + Abs(dlon)) : r * r = dlat * dlat + dlon * dlon

\* station i is nearer than station j; one without a position is nearest
\* to nothing
ReferenceNearer(i, j) ==
    /\ ReferenceDistance(i) >= 0
    /\ ReferenceDistance(j) < 0 \/ ReferenceDistance(i) < ReferenceDistance(j)

\* nearest_idx holds k of the stations (all of them when there are fewer),
\* and no other station is nearer than one of them
SelectsNearest ==
    /\ Len(nearest_idx) = (IF k < N THEN k ELSE N)
    /\ \A i, j \in 1..Len(nearest_idx) : i # j => nearest_idx[i] # nearest_idx[j]
    /\ \A j \in 1..N :
         (\A i \in 1..Len(nearest_idx) : nearest_idx[i] # j)
            => \A i \in 1..Len(nearest_idx) : ~ReferenceNearer(j, nearest_idx[i])

\* the product, over the positions S of nearest_idx, of d^power
RECURSIVE PowerProduct(_)
PowerProduct(S) ==
    IF S = {} THEN 1
    ELSE LET i == CHOOSE j \in S : TRUE
         IN (ReferenceDistance(nearest_idx[i]) ^ power) * PowerProduct(S \ {i})

\* the sum, over the positions i in T, of value_i / d_i^power, times the
\* product of all the d^power of S
RECURSIVE ReferenceNumerator(_, _)
ReferenceNumerator(T, S) ==
    IF T = {} THEN 0
    ELSE LET i == CHOOSE j \in T : TRUE
         IN Val(nearest_idx[i]).n * PowerProduct(S \ {i})
                + ReferenceNumerator(T \ {i}, S)

\* the sum, over the positions i in T, of 1 / d_i^power, times the product
\* of all the d^power of S
RECURSIVE ReferenceDenominator(_, _)
ReferenceDenominator(T, S) ==
    IF T = {} THEN 0
    ELSE LET i == CHOOSE j \in T : TRUE
         IN PowerProduct(S \ {i}) + ReferenceDenominator(T \ {i}, S)

\* (sum of value_i / d_i^power) / (sum of 1 / d_i^power) over S, the
\* stations among the selected ones that carry a value: the quotient of the
\* two exact sums, as a float
ReferenceEstimate ==
    Num(ReferenceNumerator(SelectedDefined, SelectedDefined),
        ReferenceDenominator(SelectedDefined, SelectedDefined))

\* the reference is a number: S is not empty and each of its stations has a
\* distance from the target
ReferenceDefined ==
    /\ SelectedDefined # {}
    /\ \A i \in SelectedDefined : ReferenceDistance(nearest_idx[i]) > 0

\* 2^-48: the rounding of the operations of one estimate stays below it
Roundoff == B64(1, NatShl(NatOfInt(1), 52), -100)

\* x is y up to the rounding of binary64 arithmetic
SameUpToRounding(x, y) ==
    /\ IsNum(x)
    /\ FLeq(FAbs(FSub(x, y)), FMul(FAbs(y), Roundoff))

\* C22: with no station at distance 0, idw_interpolate returns the reference
\* IDW estimate over S, the stations with a value among the k nearest:
\* (sum of value_i / d_i^power) / (sum of 1 / d_i^power) with d_i the planar
\* Euclidean distance, up to the rounding of float arithmetic; it is NaN
\* where the quotient is undefined (S empty, or a station of S without a
\* distance).  The values are those of a float64 column; a column of dtype
\* object is under C8.
C22_ReferenceEstimator ==
    (/\ pc = "returned"
     /\ NumericValues
     /\ \A i \in 1..N : ReferenceDistance(i) # 0)
        => /\ result.outcome = "return"
           /\ SelectsNearest
           /\ IF ReferenceDefined
              THEN SameUpToRounding(result.value, ReferenceEstimate)
              ELSE isnan(result.value)

\* two stations at the distances 5 and 4 with the values 10 and 30, power 1:
\* the estimate is 190 / 9
C22_Witness ==
    /\ pc = "returned"
    /\ N = 2 /\ k = 2 /\ power = 1
    /\ ReferenceDistance(1) = 5 /\ ReferenceDistance(2) = 4
    /\ Val(1) = F(10) /\ Val(2) = F(30)
    /\ nearest_idx = <<2, 1>>
    /\ ReferenceEstimate = Num(190, 9)
    /\ SameUpToRounding(result.value, Num(190, 9))

(* Calls one after the other on one table as the script makes them, with   *)
(* power=2 in every call: the caller repeats a call with the arguments it  *)
(* has just used and goes on to another target and k.                      *)

InitRepeat ==
    /\ stations_df \in Tables
    /\ \E t \in Targets : target_lat = t[1] /\ target_lon = t[2]
    /\ k \in Ks
    /\ power = 2
    /\ nearest_idx = <<>>
    /\ result = NoCall
    /\ pc = "call"
    /\ FnAtRest

\* One call, as Interpolate, by a caller that makes each call a second time
\* with the same arguments, on the table as the first call has left it.
InterpolateOrRepeat ==
    /\ pc \in {"call", "returned"}
    /\ \E order \in argsort(Dists(stations_df, target_lat, target_lon)) :
         \E r \in {idw_interpolate(stations_df, target_lat, target_lon,
                                   k, power, order)} :
            /\ nearest_idx' = r.nearest_idx
            /\ result' = r.result
            /\ stations_df' = TableAfter(stations_df, target_lat, target_lon,
                                         k, power, order)
    /\ pc' = (IF pc = "call" THEN "returned" ELSE "repeated")
    /\ UNCHANGED <<target_lat, target_lon, k, power>>
    /\ UNCHANGED fn_vars

\* The caller goes on to the next estimate.
NextEstimate ==
    /\ pc \in {"returned", "repeated"}
    /\ \E t \in Targets : target_lat' = t[1] /\ target_lon' = t[2]
    /\ k' \in Ks
    /\ nearest_idx' = <<>>
    /\ result' = NoCall
    /\ pc' = "call"
    /\ UNCHANGED <<stations_df, power>>
    /\ UNCHANGED fn_vars

NextRepeat == InterpolateOrRepeat \/ NextEstimate

SpecRepeat == InitRepeat /\ [][NextRepeat]_vars

\* C23: idw_interpolate leaves the station table as it was (coordinates,
\* values, row order) over any sequence of calls, and a call that is
\* repeated with the same arguments after other calls returns what it
\* returned before when np.argsort gives the same order.
C23_NoEffectNoState ==
    [][/\ stations_df' = stations_df
       /\ (pc' = "repeated" /\ nearest_idx' = nearest_idx) => result' = result]_vars

\* a repeated call has returned an estimate of two values, for a table whose
\* rows are not in the order of their distances
C23_Witness ==
    /\ pc = "repeated"
    /\ N = 2
    /\ IsNum(D[1]) /\ IsNum(D[2]) /\ FLess(D[2], D[1])
    /\ nearest_idx = <<2, 1>>
    /\ IsNum(Val(1)) /\ IsNum(Val(2))
    /\ result.outcome = "return" /\ IsNum(result.value)

----------------------------------------------------------------------------
(* Calls of swiss_lv95_to_wgs84 and get_wgs84_municipality one after the   *)
(* other, with repeated arguments; `io` lists every request sent so far   *)
(* and `call.seq` counts the calls.                                        *)

\* the dict {key: value}
OneKey(key, value) == [ky \in {key} |-> value]

\* answers of the conversion service: no connection, an error status, a
\* body without `northing`, a complete body
SwissCallWorlds ==
    {HttpWorld("ConnectionError", 200, JOther("null")),
     HttpWorld("ok", 503, JOther("malformed")),
     HttpWorld("ok", 200, JDict(OneKey("easting", PyFloat(Num(744, 100))))),
     HttpWorld("ok", 200, JDict([easting |-> PyFloat(Num(744, 100)),
                                 northing |-> PyFloat(Num(4695, 100))]))}

\* answers of the place search: a timeout, an error status, no candidate,
\* a candidate without attrs, a qualifying candidate
MuniCallWorlds ==
    {HttpWorld("Timeout", 200, JOther("null")),
     HttpWorld("ok", 404, JDict(<<>>)),
     HttpWorld("ok", 200, JDict(OneKey("results", JList(<<>>)))),
     HttpWorld("ok", 200, JDict(OneKey("results", JList(<<JDict(<<>>)>>)))),
     HttpWorld("ok", 200, JDict(OneKey("results", JList(<<
         JDict(OneKey("attrs",
               JDict([featureId |-> PyInt(351),
                      lat |-> PyFloat(Num(4695, 100)),
                      lon |-> PyStr(<<"7", ".", "4", "4">>)])))>>))))}

InitCalls ==
    /\ IdwAtRest
    /\ call = [fn |-> "none", seq |-> 0]
    /\ world = [kind |-> "none"]
    /\ ret = NoRet
    /\ log = <<>>
    /\ io = <<>>
    /\ step = "idle"

CallSwiss ==
    /\ call.seq < MaxCalls
    /\ step \in {"idle", "returned"}
    /\ \E e \in {F(2600000), F(0)}, w \in SwissCallWorlds :
         LET r == swiss_lv95_to_wgs84(e, F(1200000), w)
         IN /\ call' = [fn |-> "swiss_lv95_to_wgs84", seq |-> call.seq + 1,
                        easting |-> e, northing |-> F(1200000)]
            /\ world' = w
            /\ ret' = r.ret
            /\ log' = log \o r.log
            /\ io' = io \o r.io
    /\ step' = "returned"
    /\ UNCHANGED idw_vars

CallMuni ==
    /\ call.seq < MaxCalls
    /\ step \in {"idle", "returned"}
    /\ \E name \in MuniNames, w \in MuniCallWorlds :
         LET r == get_wgs84_municipality(name, w)
         IN /\ call' = [fn |-> "get_wgs84_municipality", seq |-> call.seq + 1,
                        name |-> name]
            /\ world' = w
            /\ ret' = r.ret
            /\ log' = log \o r.log
            /\ io' = io \o r.io
    /\ step' = "returned"
    /\ UNCHANGED idw_vars

NextCalls == CallSwiss \/ CallMuni

SpecCalls == InitCalls /\ [][NextCalls]_vars

\* the request that belongs to a call
RequestOf(c) ==
    IF c.fn = "swiss_lv95_to_wgs84" THEN SwissRequest(c.easting, c.northing)
    ELSE MuniRequest(c.name)

\* C24: every call of swiss_lv95_to_wgs84 and of get_wgs84_municipality
\* sends exactly one request, whatever its outcome and whatever calls came
\* before: a failed request is not sent again and a repeated name or
\* coordinate is not answered from a cache.
C24_OneRequestPerCall ==
    [][call'.seq = call.seq + 1 /\ io' = Append(io, RequestOf(call'))]_vars

\* three calls with the same name, the first of them failed: three requests
C24_Witness ==
    /\ call.seq = 3
    /\ Len(io) = 3
    /\ \A i \in 1..3 : io[i] = MuniRequest("Bern")
    /\ Len(log) >= 1
    /\ log[1].subject = "Bern"
    /\ ret.outcome = "return" /\ ret.value.t = "tuple"

----------------------------------------------------------------------------
(* The station precomputation (run_GeocoordinateTransformation.py).        *)
(* `world` holds the rows of stations.csv and, for each row, what the      *)
(* conversion service answers if it is asked for that row; `call` holds    *)
(* the row the loop is at and the lists lats and lons; `io` lists the      *)
(* requests sent and the delays slept, in order.                           *)

RequestEvent(req) == [kind |-> "request", req |-> req, seconds |-> F(0)]
SleepEvent(seconds) == [kind |-> "sleep", req |-> <<>>, seconds |-> seconds]

\* easting is not None and northing is not None
BothPresent(parsed) ==
    /\ parsed.outcome = "return"
    /\ ~IsNone(parsed.value[1]) /\ ~IsNone(parsed.value[2])

\* a loop body that sleeps only after a conversion that gave a position
RowSleepOnSuccess(row, w) ==
    LET parsed == parse_coords(row.Easting, row.Northing)
        conv == swiss_lv95_to_wgs84(parsed.value[1].x, parsed.value[2].x, w)
    IN IF BothPresent(parsed)
       THEN [lat |-> conv.ret.value[1], lon |-> conv.ret.value[2],
             log |-> conv.log,
             io |-> <<RequestEvent(conv.io[1])>>
                    \o (IF conv.log = <<>> THEN <<SleepEvent(Num(3, 10))>> ELSE <<>>)]
       ELSE [lat |-> PyNone, lon |-> PyNone, log |-> <<>>, io |-> <<>>]

\* the loop body, lines 13-21: parse; if both are there, lat, lon =
\* swiss_lv95_to_wgs84(easting, northing) and time.sleep(0.3); else None, None
RowResult(row, w) ==
    LET parsed == parse_coords(row.Easting, row.Northing)
        conv == swiss_lv95_to_wgs84(parsed.value[1].x, parsed.value[2].x, w)
    IN IF BothPresent(parsed)
       THEN [lat |-> conv.ret.value[1], lon |-> conv.ret.value[2],
             log |-> conv.log,
             io |-> <<RequestEvent(conv.io[1]), SleepEvent(Num(3, 10))>>]
       ELSE [lat |-> PyNone, lon |-> PyNone, log |-> <<>>, io |-> <<>>]

\* df['WGS84_Latitude'] = lats; df['WGS84_Longitude'] = lons
WithWgs84(rows, lats, lons) ==
    [i \in DOMAIN rows |->
        [Easting |-> rows[i].Easting, Northing |-> rows[i].Northing,
         WGS84_Latitude |-> lats[i], WGS84_Longitude |-> lons[i]]]

\* cells of stations.csv: two numbers, one "easting/northing" string, text
\* that is no number, empty cells (NaN)
StationCells ==
    {[Easting |-> PyInt(2600000), Northing |-> PyInt(1200000)],
     [Easting |-> PyStr(<<"1", "/", "5">>), Northing |-> PyFloat(NaN)],
     [Easting |-> PyStr(<<"x">>), Northing |-> PyInt(1200000)],
     [Easting |-> PyFloat(NaN), Northing |-> PyFloat(NaN)]}

\* answers of the conversion service
ConversionAnswers ==
    {HttpWorld("ok", 503, JOther("malformed")),
     HttpWorld("ok", 200, JDict([easting |-> PyFloat(Num(744, 100)),
                                 northing |-> PyFloat(Num(4695, 100))])),
     HttpWorld("ok", 200, JDict([easting |-> PyFloat(Num(17, 2)),
                                 northing |-> PyFloat(Num(47, 1))]))}

Loop(next, lats, lons) ==
    [fn |-> "run_GeocoordinateTransformation", next |-> next,
     lats |-> lats, lons |-> lons]

InitStations ==
    /\ IdwAtRest
    /\ call = Loop(1, <<>>, <<>>)
    /\ \E n \in 0..MaxStationRows :
         \E rows \in [1..n -> StationCells], answers \in [1..n -> ConversionAnswers] :
            world = [kind |-> "stations", rows |-> rows, answers |-> answers]
    /\ ret = NoRet
    /\ log = <<>>
    /\ io = <<>>
    /\ step = "loop"

\* one pass of `for idx, row in df.iterrows()`
ProcessRow ==
    /\ step = "loop"
    /\ call.fn = "run_GeocoordinateTransformation"
    /\ call.next <= Len(world.rows)
    /\ \E r \in {RowResult(world.rows[call.next], world.answers[call.next])} :
          /\ call' = Loop(call.next + 1, Append(call.lats, r.lat),
                          Append(call.lons, r.lon))
          /\ log' = log \o r.log
          /\ io' = io \o r.io
    /\ UNCHANGED <<world, ret, step>>
    /\ UNCHANGED idw_vars

\* lines 25-29: the two columns are added and the table is written
WriteStations ==
    /\ step = "loop"
    /\ call.fn = "run_GeocoordinateTransformation"
    /\ call.next > Len(world.rows)
    /\ ret' = Ret(WithWgs84(world.rows, call.lats, call.lons))
    /\ step' = "done"
    /\ UNCHANGED <<call, world, log, io>>
    /\ UNCHANGED idw_vars

NextStations == ProcessRow \/ WriteStations

SpecStations == InitStations /\ [][NextStations]_vars

\* the coordinates of row i parsed
RowParsed(i) ==
    BothPresent(parse_coords(world.rows[i].Easting, world.rows[i].Northing))

\* the rows among the first n whose coordinates parsed, in row order
RECURSIVE ParsedRows(_)
ParsedRows(n) ==
    IF n = 0 THEN <<>>
    ELSE ParsedRows(n - 1) \o (IF RowParsed(n) THEN <<n>> ELSE <<>>)

\* the request of the conversion of row i
ConversionRequest(i) ==
    LET parsed == parse_coords(world.rows[i].Easting, world.rows[i].Northing)
    IN SwissRequest(parsed.value[1].x, parsed.value[2].x)

\* C25: the rows are processed one after the other in input order; the
\* converter is called exactly once for each row whose coordinates parsed
\* and never for another row; a fixed delay follows each conversion before
\* the next one starts; the output has one (latitude, longitude) entry per
\* input row in row order, with no position for the rows that failed.
C25_SequentialPrecomputation ==
    call.fn = "run_GeocoordinateTransformation" =>
        LET done == call.next - 1
            parsed == ParsedRows(done)
        IN /\ Len(io) = 2 * Len(parsed)
           /\ \A j \in DOMAIN parsed :
                /\ io[2 * j - 1].kind = "request"
                /\ io[2 * j - 1].req = ConversionRequest(parsed[j])
                /\ io[2 * j] = SleepEvent(Num(3, 10))
           /\ Len(call.lats) = done /\ Len(call.lons) = done
           /\ \A i \in 1..done :
                ~RowParsed(i) => IsNone(call.lats[i]) /\ IsNone(call.lons[i])
           /\ step = "done" =>
                /\ done = Len(world.rows)
                /\ Len(ret.value) = Len(world.rows)
                /\ \A i \in DOMAIN world.rows :
                     /\ ret.value[i].Easting = world.rows[i].Easting
                     /\ ret.value[i].WGS84_Latitude = call.lats[i]
                     /\ ret.value[i].WGS84_Longitude = call.lons[i]

\* two rows: the first does not parse, the second parses and its
\* conversion fails; one request, one delay, two entries without position
C25_Witness ==
    /\ call.fn = "run_GeocoordinateTransformation" /\ step = "done"
    /\ Len(world.rows) = 2
    /\ ~RowParsed(1) /\ RowParsed(2)
    /\ world.answers[2].status = 503
    /\ Len(io) = 2 /\ io[1].kind = "request" /\ io[2].kind = "sleep"
    /\ Len(log) = 1
    /\ Len(ret.value) = 2
    /\ IsNone(ret.value[2].WGS84_Latitude)

\* the conversion of row i gave a position
Converted(i) ==
    /\ RowParsed(i)
    /\ world.answers[i].get = "ok" /\ world.answers[i].status = 200

\* C27: in the table that is written, for every row whose conversion
\* succeeded WGS84_Latitude holds the latitude that swiss_lv95_to_wgs84
\* returned (the second element, the response's `northing`) and
\* WGS84_Longitude the longitude (the first element, `easting`).
C27_LatitudeIsLatitude ==
    (call.fn = "run_GeocoordinateTransformation" /\ step = "done") =>
        \A i \in DOMAIN world.rows :
            Converted(i) =>
                /\ ret.value[i].WGS84_Latitude = world.answers[i].body.d["northing"]
                /\ ret.value[i].WGS84_Longitude = world.answers[i].body.d["easting"]

----------------------------------------------------------------------------
(* The weights as a function of power.                                     *)

\* distances of the selected stations that carry a value, nearest first
SelectedDists ==
    BoolIndex([i \in 1..Len(nearest_idx) |-> D[nearest_idx[i]]],
              [i \in 1..Len(nearest_idx) |-> ~isnan(Val(nearest_idx[i]))])

\* C26: with no station at distance 0, the normalized weight of the nearest
\* selected station that carries a value does not decrease when power
\* increases, and when the selected stations are equidistant their weights
\* are equal for every power.
C26_PowerMonotone ==
    (pc = "returned" /\ ~SomeCoincident /\ SelectedDists # <<>>) =>
        /\ \A p1, p2 \in Powers :
              p1 < p2 => FLeq(Weights(SelectedDists, p1)[1],
                              Weights(SelectedDists, p2)[1])
        /\ (\A i, j \in DOMAIN SelectedDists :
                SelectedDists[i] = SelectedDists[j]) =>
              \A pw \in Powers : \A i, j \in DOMAIN SelectedDists :
                  /\ FLeq(Weights(SelectedDists, pw)[i], Weights(SelectedDists, pw)[j])
                  /\ FLeq(Weights(SelectedDists, pw)[j], Weights(SelectedDists, pw)[i])

----------------------------------------------------------------------------
(* The canton analysis loop (airquality_healthinsurancefees.py, 367-415).  *)
(* The loop is followed through its first passes: `world` holds the fee    *)
(* table Data, the workbook of the fee regions, for each of the first      *)
(* cantons in the order of the loop the list s_Municipality that the       *)
(* GetMunicipalities_... call of the pass gives, the answer of the search  *)
(* service for each name, and the station table; `call` holds the position *)
(* of the two loops, the variables Data and Kanton and the two dicts.  A dict is the *)
(* sequence of its items in insertion order.  A line written by print is a *)
(* record of `log` with the stream and the parts of the text.              *)

\* d[key] = value
RECURSIVE DictSet(_, _, _)
DictSet(d, key, value) ==
    IF d = <<>> THEN <<[key |-> key, value |-> value]>>
    ELSE IF Head(d).key = key THEN <<[key |-> key, value |-> value]>> \o Tail(d)
    ELSE <<Head(d)>> \o DictSet(Tail(d), key, value)

\* list(d.values())
DictValues(d) == [i \in DOMAIN d |-> d[i].value]

\* x put into the sorted list, after the items that are not greater
RECURSIVE InsertSorted(_, _)
InsertSorted(sorted, x) ==
    IF sorted = <<>> THEN <<x>>
    ELSE IF FLess(x, Head(sorted)) THEN <<x>> \o sorted
    ELSE <<Head(sorted)>> \o InsertSorted(Tail(sorted), x)

\* sorted(data), of numbers
RECURSIVE Sorted(_)
Sorted(data) ==
    IF data = <<>> THEN <<>>
    ELSE InsertSorted(Sorted(SubSeq(data, 1, Len(data) - 1)), data[Len(data)])

\* statistics.median of a non-empty list of numbers: the middle item of the
\* sorted list, or the mean of the two middle items
median(data) ==
    LET sorted == Sorted(data)
        n == Len(data)
    IN IF n % 2 = 1 THEN sorted[(n + 1) \div 2]
       ELSE FDiv(FAdd(sorted[n \div 2], sorted[n \div 2 + 1]), F(2))

\* the name that is looked up for a municipality: get_wgs84_municipality("Steinhausen")
GeocodedName(Municipality) == "Steinhausen"

\* Enriched_Pollution_Per_Station, the column value_col
Enriched_Pollution_Per_Station ==
    DataFrame(<<[WGS84_Latitude |-> F(3), WGS84_Longitude |-> F(0), value |-> F(10)],
                [WGS84_Latitude |-> F(0), WGS84_Longitude |-> F(4), value |-> F(30)]>>)

\* swiss_cantons_abbr_to_name.keys(), in the order of the dict
CantonKeys ==
    <<"AG", "AR", "AI", "BL", "BS", "BE", "FR", "GE", "GL", "GR", "JU", "LU",
      "NE", "NW", "OW", "SH", "SZ", "SO", "SG", "TI", "TG", "UR", "VD", "VS",
      "ZG", "ZH">>

\* the answer of the search service that places a municipality at pos
PlacedAt(pos) ==
    HttpWorld("ok", 200, JDict(OneKey("results", JList(<<
        JDict(OneKey("attrs",
              JDict([featureId |-> PyInt(351),
                     lat |-> PyFloat(pos[1]),
                     lon |-> PyFloat(pos[2])])))>>))))

GeocoderAnswers ==
    {PlacedAt(pos) : pos \in Targets}
        \cup {HttpWorld("ok", 200, JDict(OneKey("results", JList(<<>>))))}

MunicipalityLists ==
    UNION {[1..n -> MuniNames] : n \in 0..MaxMunicipalities}

\* swiss_cantons_abbr_to_name[Kanton]
swiss_cantons_abbr_to_name ==
    [Kanton \in {CantonKeys[c] : c \in DOMAIN CantonKeys} |->
        CASE Kanton = "AG" -> "Aargau"
          [] Kanton = "AR" -> "Appenzell Ausserrhoden"
          [] Kanton = "AI" -> "Appenzell Innerrhoden"
          [] Kanton = "BL" -> "Basel-Landschaft"
          [] Kanton = "BS" -> "Basel-Stadt"
          [] Kanton = "BE" -> "Bern"
          [] Kanton = "FR" -> "Freiburg"
          [] Kanton = "GE" -> "Genf"
          [] Kanton = "GL" -> "Glarus"
          [] Kanton = "GR" -> "Graubünden"
          [] Kanton = "JU" -> "Jura"
          [] Kanton = "LU" -> "Luzern"
          [] Kanton = "NE" -> "Neuenburg"
          [] Kanton = "NW" -> "Nidwalden"
          [] Kanton = "OW" -> "Obwalden"
          [] Kanton = "SH" -> "Schaffhausen"
          [] Kanton = "SZ" -> "Schwyz"
          [] Kanton = "SO" -> "Solothurn"
          [] Kanton = "SG" -> "St. Gallen"
          [] Kanton = "TI" -> "Tessin"
          [] Kanton = "TG" -> "Thurgau"
          [] Kanton = "UR" -> "Uri"
          [] Kanton = "VD" -> "Waadt"
          [] Kanton = "VS" -> "Wallis"
          [] Kanton = "ZG" -> "Zug"
          [] Kanton = "ZH" -> "Zürich"]

\* a line of print: the parts of the text in order, without the pictograph
\* that some lines begin with
Stdout(text) == [stream |-> "stdout", text |-> text]

\* the column Region of the fee table for one canton: no row, one region,
\* or two regions of which the first occurs twice
RegionColumns ==
    {<<>>, <<"PR-REG CH1">>, <<"PR-REG CH1", "PR-REG CH2", "PR-REG CH1">>}

\* what one pass of the loop meets: the rows of the fee table for the key of
\* the pass and what the GetMunicipalities_... call of the pass gives, a list
\* or (answered FALSE) None; without a row the pass does not get to the call
Passes ==
    {[Region |-> <<>>, answered |-> FALSE, s_Municipality |-> <<>>]}
        \cup {[Region |-> column, answered |-> FALSE, s_Municipality |-> <<>>] :
                 column \in RegionColumns \ {<<>>}}
        \cup {[Region |-> column, answered |-> TRUE, s_Municipality |-> municipalities] :
                 column \in RegionColumns \ {<<>>},
                 municipalities \in MunicipalityLists}

\* the rows (Kanton, Region) of Data: those of the first cantons of the loop
RECURSIVE RegionRows(_)
RegionRows(passes) ==
    IF passes = <<>> THEN <<>>
    ELSE RegionRows(SubSeq(passes, 1, Len(passes) - 1))
            \o [i \in DOMAIN passes[Len(passes)].Region |->
                   [Kanton |-> CantonKeys[Len(passes)],
                    Region |-> passes[Len(passes)].Region[i]]]

\* Data[Data['Kanton'] == Kanton]['Region']; no Region of the model is null
RECURSIVE RegionOf(_, _)
RegionOf(rows, Kanton) ==
    IF rows = <<>> THEN <<>>
    ELSE (IF Head(rows).Kanton = Kanton THEN <<Head(rows).Region>> ELSE <<>>)
            \o RegionOf(Tail(rows), Kanton)

\* the items of a list, each once, in the order of their first occurrence
RECURSIVE Distinct(_)
Distinct(names) ==
    IF names = <<>> THEN <<>>
    ELSE LET front == Distinct(SubSeq(names, 1, Len(names) - 1))
             last == names[Len(names)]
         IN IF \E i \in DOMAIN front : front[i] = last THEN front
            ELSE Append(front, last)

\* the file of the fees as pd.read_csv meets it: not there, not readable as
\* latin1 text or as CSV, failing otherwise, or the columns and the rows
FeeFile(kind, columns, rows) == [kind |-> kind, columns |-> columns, rows |-> rows]

ReadErrors == {"FileNotFoundError", "UnicodeDecodeError", "ParserError", "Exception"}

\* LoadData(pth): the table of the file, or None and a line that names what
\* went wrong
LoadData(file) ==
    LET pth == "data/healthinsurance/Prämien_CH.csv"
        read == <<[kind |-> "read_csv", pth |-> pth, sep |-> ";", encoding |-> "latin1"]>>
    IN IF file.kind = "loaded"
       THEN [ret |-> [t |-> "frame", columns |-> file.columns, rows |-> file.rows],
             log |-> <<Stdout(<<"File loaded successfully.">>)>>,
             io |-> read]
       ELSE [ret |-> [t |-> "none", columns |-> {}, rows |-> <<>>],
             log |-> <<Stdout(CASE file.kind = "FileNotFoundError" ->
                                     <<"File not found: ", pth>>
                                [] file.kind = "UnicodeDecodeError" ->
                                     <<"Encoding error while reading the file: ", file.kind>>
                                [] file.kind = "ParserError" ->
                                     <<"Error while parsing the CSV file: ", file.kind>>
                                [] OTHER ->
                                     <<"Unexpected error: ", file.kind>>)>>,
             io |-> read]

\* GetRegion(Data, Kanton): the distinct regions of the canton, None without
\* any, None and a line when the table lacks one of the two columns
GetRegion(Data, Kanton) ==
    LET regions == Distinct(RegionOf(Data.rows, Kanton))
    IN IF ~({"Kanton", "Region"} \subseteq Data.columns)
       THEN [ret |-> [t |-> "none", s |-> <<>>],
             log |-> <<Stdout(<<"Columns 'Kanton' or 'Region' not found in DataFrame.">>)>>]
       ELSE IF Len(regions) = 0 THEN [ret |-> [t |-> "none", s |-> <<>>], log |-> <<>>]
       ELSE [ret |-> [t |-> "list", s |-> regions], log |-> <<>>]

\* str.strip().lower() of the spellings of the model
StripLower(name) ==
    CASE name \in {"Bern", " BERN "} -> "bern"
      [] name = "Steinhausen" -> "steinhausen"

\* str(region) of the regions of the model
RegionStr(region) == IF region = 1 THEN "1" ELSE "2"

\* the workbook of the fee regions as pd.read_excel meets it: not there, or
\* the rows of the sheet
Workbooks ==
    {[kind |-> "FileNotFoundError", rows |-> <<>>],
     [kind |-> "loaded", rows |-> <<[Gemeinde |-> "Bern", Kanton |-> "AG", Region |-> 1]>>],
     [kind |-> "loaded", rows |-> <<[Gemeinde |-> "Bern", Kanton |-> "AR", Region |-> 1]>>],
     [kind |-> "loaded", rows |-> <<[Gemeinde |-> " BERN ", Kanton |-> "BE", Region |-> 2],
                                    [Gemeinde |-> "Bern", Kanton |-> "AR", Region |-> 1]>>]}

\* the rows whose Gemeinde is the one looked for, case and blanks apart
RECURSIVE Matching(_, _)
Matching(rows, Gemeinde) ==
    IF rows = <<>> THEN <<>>
    ELSE (IF StripLower(Head(rows).Gemeinde) = StripLower(Gemeinde)
          THEN <<Head(rows)>> ELSE <<>>)
            \o Matching(Tail(rows), Gemeinde)

\* GetKantonRegionFromGemeinde(pth, Gemeinde): (Kanton, Region) of the first
\* row of the sheet with that Gemeinde; None when there is none or when the
\* workbook cannot be read
GetKantonRegionFromGemeinde(workbook, Gemeinde) ==
    LET read == <<[kind |-> "read_excel", pth |-> "data/healthinsurance/praemienregionen-ab-2025.xlsx",
                   sheet_name |-> "Anhang EDI Ver. über die PR"]>>
        match == Matching(workbook.rows, Gemeinde)
    IN IF workbook.kind = "FileNotFoundError"
       THEN [ret |-> [t |-> "none"],
             log |-> <<Stdout(<<"File not found: ", "data/healthinsurance/praemienregionen-ab-2025.xlsx">>)>>,
             io |-> read]
       ELSE IF match = <<>>
       THEN [ret |-> [t |-> "none"],
             log |-> <<Stdout(<<"File loaded successfully.">>),
                       Stdout(<<"Gemeinde '", Gemeinde, "' not found.">>)>>,
             io |-> read]
       ELSE [ret |-> [t |-> "tuple", Kanton |-> match[1].Kanton,
                      Region |-> RegionStr(match[1].Region)],
             log |-> <<Stdout(<<"File loaded successfully.">>)>>,
             io |-> read]

\* what a GetMunicipalities_... call reaches for: pd.read_excel of the
\* workbook or requests.get
Requested(kind, function, args) == [kind |-> kind, function |-> function, args |-> args]

\* GetMunicipalities_MultipleFeeRegions(pth, Kanton, Region): one read of the
\* workbook; the municipalities of the fee region, None when the read fails
GetMunicipalities_MultipleFeeRegions(answered, municipalities, Kanton, Region) ==
    [ret |-> IF answered THEN [t |-> "list", s |-> municipalities]
             ELSE [t |-> "none", s |-> <<>>],
     io |-> <<Requested("read_excel", "GetMunicipalities_MultipleFeeRegions",
                        <<Kanton, Region>>)>>]

\* GetMunicipalities_PerCanton(canton): one request; the municipalities of
\* the canton, None when the request fails
GetMunicipalities_PerCanton(answered, municipalities, canton) ==
    [ret |-> IF answered THEN [t |-> "list", s |-> municipalities]
             ELSE [t |-> "none", s |-> <<>>],
     io |-> <<Requested("get", "GetMunicipalities_PerCanton", <<canton>>)>>]

\* str(s_Municipality) as print shows it
ListStr(s_Municipality) ==
    IF IsNone(s_Municipality) THEN <<"None">> ELSE <<"list", s_Municipality.s>>

CantonLoop(Data, canton, municipality, Kanton, vk_Pollutant, vk_Kanton_Pollutant) ==
    [fn |-> "canton_loop", Data |-> Data, canton |-> canton,
     municipality |-> municipality, Kanton |-> Kanton,
     vk_Pollutant |-> vk_Pollutant, vk_Kanton_Pollutant |-> vk_Kanton_Pollutant]

\* Data before line 373 binds it
Unbound == [t |-> "unbound", columns |-> {}, rows |-> <<>>]

\* the files of the fees: one that cannot be read, one without the column
\* Region, and one with the rows of the passes that are followed
FeeFiles ==
    {<<FeeFile(e, {}, <<>>), <<>>>> : e \in ReadErrors}
        \cup {<<FeeFile("loaded", {"Kanton"}, <<>>),
                <<[Region |-> <<>>, answered |-> FALSE, s_Municipality |-> <<>>]>>>>}
        \cup {<<FeeFile("loaded", {"Kanton", "Region"}, RegionRows(passes)), passes>> :
                 passes \in UNION {[1..n -> Passes] : n \in 0..MaxCantons}}

\* lines 369-372: the two dicts are empty and Data is yet to be loaded;
\* municipality = 0: the pass for the key canton has not begun
InitCantons ==
    /\ IdwAtRest
    /\ call = CantonLoop(Unbound, 1, 0, "", <<>>, <<>>)
    /\ \E workbook \in Workbooks, geocoder \in [MuniNames -> GeocoderAnswers],
          fees \in FeeFiles :
         world = [kind |-> "cantons", file |-> fees[1],
                  cantons |-> [c \in DOMAIN fees[2] |-> fees[2][c].s_Municipality],
                  answered |-> [c \in DOMAIN fees[2] |-> fees[2][c].answered],
                  workbook |-> workbook, geocoder |-> geocoder,
                  stations |-> Enriched_Pollution_Per_Station]
    /\ ret = NoRet
    /\ log = <<>>
    /\ io = <<>>
    /\ step = "load"

\* line 373: Data = LoadData(pth_Fees)
LoadFees ==
    /\ step = "load"
    /\ call.fn = "canton_loop"
    /\ \E r \in {LoadData(world.file)} :
         /\ call' = [call EXCEPT !.Data = r.ret]
         /\ log' = log \o r.log
         /\ io' = io \o r.io
    /\ step' = "loop"
    /\ UNCHANGED <<world, ret>>
    /\ UNCHANGED idw_vars

InCantonLoop == step = "loop" /\ call.fn = "canton_loop"

\* line 374 lets the loop run and it has a next key among the passes that
\* are followed
NextKanton == ~IsNone(call.Data) /\ call.canton <= Len(world.cantons)

\* the head of a pass of `for Kanton in ...`, lines 375-399: Kanton is bound
\* to the key, then the regions of the key, the municipalities of the pass,
\* and with more than one region the rebinding of Kanton to the canton of
\* the first municipality
BeginCanton ==
    /\ InCantonLoop
    /\ NextKanton
    /\ call.municipality = 0
    /\ LET Kanton == CantonKeys[call.canton]
           s_Region == GetRegion(call.Data, Kanton)
       IN IF IsNone(s_Region.ret)
          THEN \* len(None)
               /\ ret' = Exc("TypeError")
               /\ step' = "raised"
               /\ call' = [call EXCEPT !.Kanton = Kanton]
               /\ log' = log \o s_Region.log
               /\ io' = io
          ELSE IF Len(s_Region.ret.s) > 1
          THEN \E m \in {GetMunicipalities_MultipleFeeRegions(
                             world.answered[call.canton], world.cantons[call.canton],
                             Kanton, s_Region.ret.s[1])} :
                  IF IsNone(m.ret) \/ m.ret.s = <<>>
                  THEN \* s_Municipality[0], of None or of []
                       /\ ret' = Exc(IF IsNone(m.ret) THEN "TypeError" ELSE "IndexError")
                       /\ step' = "raised"
                       /\ call' = [call EXCEPT !.Kanton = Kanton]
                       /\ io' = io \o m.io
                       /\ log' = log
                  ELSE \E r \in {GetKantonRegionFromGemeinde(world.workbook, m.ret.s[1])} :
                         /\ io' = io \o m.io \o r.io
                         /\ IF IsNone(r.ret)
                            THEN \* Kanton, Region = None
                                 /\ ret' = Exc("TypeError")
                                 /\ step' = "raised"
                                 /\ log' = log \o r.log
                                 /\ call' = [call EXCEPT !.Kanton = Kanton]
                            ELSE /\ call' = [call EXCEPT !.municipality = 1,
                                                         !.Kanton = r.ret.Kanton]
                                 /\ log' = log \o r.log \o
                                      <<Stdout(<<"For municipality ", m.ret.s[1],
                                                 ", the canton is ", r.ret.Kanton,
                                                 " and the fee region is ", r.ret.Region,
                                                 ".">>),
                                        Stdout(<<"In the fee region in Canton ",
                                                 r.ret.Kanton,
                                                 ", the municipalities belong to: ",
                                                 ListStr(m.ret)>>)>>
                                 /\ UNCHANGED <<ret, step>>
          ELSE \E m \in {GetMunicipalities_PerCanton(
                             world.answered[call.canton], world.cantons[call.canton],
                             swiss_cantons_abbr_to_name[Kanton])} :
                  /\ io' = io \o m.io
                  /\ log' = Append(log, Stdout(<<"In the fee region in Canton ", Kanton,
                                                 ", the municipalities belong to: ",
                                                 ListStr(m.ret)>>))
                  /\ IF IsNone(m.ret)
                     THEN \* for Municipality in None
                          /\ ret' = Exc("TypeError")
                          /\ step' = "raised"
                          /\ call' = [call EXCEPT !.Kanton = Kanton]
                     ELSE /\ call' = [call EXCEPT !.municipality = 1, !.Kanton = Kanton]
                          /\ UNCHANGED <<ret, step>>
    /\ UNCHANGED world
    /\ UNCHANGED idw_vars

\* one pass of `for Municipality in s_Municipality`, lines 400-410
InterpolateMunicipality ==
    /\ InCantonLoop
    /\ NextKanton
    /\ call.municipality \in DOMAIN world.cantons[call.canton]
    /\ LET Municipality == world.cantons[call.canton][call.municipality]
           name == GeocodedName(Municipality)
       IN \E r \in {get_wgs84_municipality(name, world.geocoder[name])} :
          /\ log' = log \o r.log
          /\ io' = io \o r.io
          /\ IF IsNone(r.ret.value)
             THEN \* lat, lon = None
                  /\ ret' = Exc("TypeError")
                  /\ step' = "raised"
                  /\ call' = call
             ELSE \E order \in argsort(Dists(world.stations, r.ret.value.s[1].x,
                                             r.ret.value.s[2].x)) :
                    \E Pollutant_Interpolated \in
                          {idw_interpolate(world.stations, r.ret.value.s[1].x,
                                           r.ret.value.s[2].x, 4, 2, order).result.value} :
                       /\ call' = [call EXCEPT
                                     !.municipality = call.municipality + 1,
                                     !.vk_Pollutant = DictSet(call.vk_Pollutant, Municipality,
                                                              Pollutant_Interpolated)]
                       /\ UNCHANGED <<ret, step>>
    /\ UNCHANGED world
    /\ UNCHANGED idw_vars

\* lines 411-415, after the municipalities of a pass: the median goes under
\* the key that Kanton holds then
RecordCanton ==
    /\ InCantonLoop
    /\ NextKanton
    /\ call.municipality > Len(world.cantons[call.canton])
    /\ call' = CantonLoop(call.Data, call.canton + 1, 0, call.Kanton, <<>>,
                          DictSet(call.vk_Kanton_Pollutant, call.Kanton,
                                  IF call.vk_Pollutant # <<>>
                                  THEN median(DictValues(call.vk_Pollutant))
                                  ELSE NaN))
    /\ UNCHANGED <<world, ret, log, io, step>>
    /\ UNCHANGED idw_vars

\* Data is None, or the passes that are followed are over:
\* vk_Kanton_Pollutant as it stands
CantonsDone ==
    /\ InCantonLoop
    /\ ~NextKanton
    /\ ret' = Ret(call.vk_Kanton_Pollutant)
    /\ step' = "done"
    /\ UNCHANGED <<call, world, log, io>>
    /\ UNCHANGED idw_vars

NextCantons ==
    LoadFees \/ BeginCanton \/ InterpolateMunicipality \/ RecordCanton \/ CantonsDone

SpecCantons == InitCantons /\ [][NextCantons]_vars

\* the estimates at the coordinates that the service gives for a name; none
\* when the service gives no coordinates
EstimatesAt(name) ==
    LET r == get_wgs84_municipality(name, world.geocoder[name])
    IN IF IsNone(r.ret.value) THEN {}
       ELSE {idw_interpolate(world.stations, r.ret.value.s[1].x, r.ret.value.s[2].x,
                             4, 2, order).result.value :
                order \in argsort(Dists(world.stations, r.ret.value.s[1].x,
                                        r.ret.value.s[2].x))}

\* the values a canton can get: NaN without municipalities, else the median
\* of its municipalities' own estimates
CantonValues(municipalities) ==
    LET names == Distinct(municipalities)
    IN IF names = <<>> THEN {NaN}
       ELSE {median(est) :
                est \in {e \in [DOMAIN names -> UNION {EstimatesAt(names[i]) : i \in DOMAIN names}] :
                            \A i \in DOMAIN names : e[i] \in EstimatesAt(names[i])}}

\* C28: the estimate recorded for a municipality is interpolated at the
\* coordinates resolved for that municipality, and the value recorded for a
\* canton is the median of the estimates of that canton's municipalities.
C28_OwnCoordinates ==
    call.fn = "canton_loop" =>
        /\ \A i \in DOMAIN call.vk_Pollutant :
              call.vk_Pollutant[i].value \in EstimatesAt(call.vk_Pollutant[i].key)
        /\ \A i \in DOMAIN call.vk_Kanton_Pollutant :
              \E c \in 1..(call.canton - 1) :
                 /\ call.vk_Kanton_Pollutant[i].key = CantonKeys[c]
                 /\ call.vk_Kanton_Pollutant[i].value \in CantonValues(world.cantons[c])

----------------------------------------------------------------------------
\* candidate c qualifies and carries coordinates that float() accepts
WellFormed(c) == Qualifies(c) /\ HasCoordinates(c)

\* C30: get_wgs84_municipality returns the coordinates of the first
\* candidate that has a non-null featureId and a parseable lat and lon
\* whenever the answer holds one, whatever the other candidates look like:
\* a candidate without attrs, or one with a featureId and no lat or lon,
\* earlier in the list does not make the lookup return nothing.
C30_FirstWellFormed ==
    (MuniReturned /\ Answered) =>
        \A i \in DOMAIN Cands :
            (WellFormed(Cands[i]) /\ \A j \in 1..(i - 1) : ~WellFormed(Cands[j]))
                => ret = Ret(CoordinatesOf(Cands[i]))

====
